---- MODULE Spec2Model ----
(***************************************************************************)
(* Conversation orchestration of the MDS-AI-Chatbot service: the patient   *)
(* turn handlers (sendMessage, sendMessageStream, cancelGeneration), the   *)
(* safety filter, the conversation store and the staff handoff handlers.   *)
(*                                                                         *)
(* Text is a sequence of atoms (short strings).  Concatenation is \o, a    *)
(* substring test is a contiguous-subsequence test, toLowerCase maps each  *)
(* atom through Lower.                                                     *)
(*                                                                         *)
(* One action is the resolution of one pending await of a handler followed *)
(* by the synchronous code up to the next await.                           *)
(***************************************************************************)
EXTENDS Integers, Sequences, FiniteSets, TLC

\* ------------------------------------------------------------------ bounds
\* fragments the engine emits in one completion
MaxFrags == 2
\* staff operations (takeover, release, staff message) that succeed in one run
MaxStaffOps == 2
\* conversationLimits.maxMessagesPerSession (50 in the source), scaled down
maxMessagesPerSession == 3
\* conversationLimits.maxSessionDurationHours (24 in the source), scaled down
maxSessionDurationHours == 2
\* heartbeat events written to one response
MaxBeats == 1
\* atoms of a text given to detectEmergency
MaxText == 3
\* the instants NOW() takes, 1..MaxStamp
MaxStamp == 2
\* messages of a conversation after its greeting, when the context is read
MaxHistory == 3
\* the largest maxMessages getContextMessages is called with
MaxContext == 2
\* rows of ai_handoff_requests when the pending queue is read
MaxQueue == 4

\* ------------------------------------------------------------ text helpers
None == "none"

Whitespace == {" ", "\n\n"}

Lower(a) ==
  CASE a = "CHEST PAIN" -> "chest pain"
    [] a = "Prescribe" -> "prescribe"
    [] a = "High Fever" -> "high fever"
    [] a = "You have" -> "you have"
    [] OTHER -> a

toLowerCase(text) == [i \in DOMAIN text |-> Lower(text[i])]

includes(text, kw) ==
  \E i \in 1..(Len(text) - Len(kw) + 1) : SubSeq(text, i, i + Len(kw) - 1) = kw

RECURSIVE Flatten(_)
Flatten(ss) == IF ss = <<>> THEN <<>> ELSE Head(ss) \o Flatten(Tail(ss))

RECURSIVE trimStart(_)
trimStart(text) ==
  IF text # <<>> /\ Head(text) \in Whitespace THEN trimStart(Tail(text)) ELSE text

RECURSIVE trimEnd(_)
trimEnd(text) ==
  IF text # <<>> /\ text[Len(text)] \in Whitespace
  THEN trimEnd(SubSeq(text, 1, Len(text) - 1))
  ELSE text

trim(text) == trimEnd(trimStart(text))

\* ------------------------------------------------------------ safety rules
emergencyKeywords == << <<"chest pain">>, <<"stroke">> >>
urgentKeywords == << <<"high fever">>, <<"infection">> >>
prohibitedTopics == << <<"abortion">>, <<"euthanasia">> >>
restrictedActions == << <<"prescribe">>, <<"diagnosis">> >>

emergencyResponse == [title |-> "EMERGENCY", message |-> <<"EMERGENCY_MESSAGE">>]
urgentResponse == [title |-> "URGENT", message |-> <<"URGENT_MESSAGE">>]
refusalResponse == [message |-> <<"REFUSAL_MESSAGE">>]
Deflection == <<"DEFLECTION_MESSAGE">>
Greeting == <<"GREETING">>

\* --------------------------------------------------- emergency-detector.js
\* detectEmergency without message.toLowerCase()
detectEmergency_CaseSensitive(message) ==
  LET emergencyMatches == SelectSeq(emergencyKeywords, LAMBDA k : includes(message, k))
      urgentMatches == SelectSeq(urgentKeywords, LAMBDA k : includes(message, k))
  IN IF Len(emergencyMatches) > 0
     THEN [isEmergency |-> TRUE, isUrgent |-> FALSE, priority |-> "emergency",
           matchedKeywords |-> emergencyMatches, response |-> emergencyResponse.message]
     ELSE IF Len(urgentMatches) > 0
     THEN [isEmergency |-> FALSE, isUrgent |-> TRUE, priority |-> "urgent",
           matchedKeywords |-> urgentMatches, response |-> urgentResponse.message]
     ELSE [isEmergency |-> FALSE, isUrgent |-> FALSE, priority |-> "normal",
           matchedKeywords |-> <<>>, response |-> <<>>]

\* detectEmergency with the urgent keywords checked first
detectEmergency_UrgentFirst(message) ==
  LET lowerMessage == toLowerCase(message)
      emergencyMatches ==
        SelectSeq(emergencyKeywords, LAMBDA k : includes(lowerMessage, toLowerCase(k)))
      urgentMatches ==
        SelectSeq(urgentKeywords, LAMBDA k : includes(lowerMessage, toLowerCase(k)))
  IN IF Len(urgentMatches) > 0
     THEN [isEmergency |-> FALSE, isUrgent |-> TRUE, priority |-> "urgent",
           matchedKeywords |-> urgentMatches, response |-> urgentResponse.message]
     ELSE IF Len(emergencyMatches) > 0
     THEN [isEmergency |-> TRUE, isUrgent |-> FALSE, priority |-> "emergency",
           matchedKeywords |-> emergencyMatches, response |-> emergencyResponse.message]
     ELSE [isEmergency |-> FALSE, isUrgent |-> FALSE, priority |-> "normal",
           matchedKeywords |-> <<>>, response |-> <<>>]

\* detectEmergency: emergency keywords first, then urgent keywords
detectEmergency(message) ==
  LET lowerMessage == toLowerCase(message)
      emergencyMatches ==
        SelectSeq(emergencyKeywords, LAMBDA k : includes(lowerMessage, toLowerCase(k)))
      urgentMatches ==
        SelectSeq(urgentKeywords, LAMBDA k : includes(lowerMessage, toLowerCase(k)))
  IN IF Len(emergencyMatches) > 0
     THEN [isEmergency |-> TRUE, isUrgent |-> FALSE, priority |-> "emergency",
           matchedKeywords |-> emergencyMatches, response |-> emergencyResponse.message]
     ELSE IF Len(urgentMatches) > 0
     THEN [isEmergency |-> FALSE, isUrgent |-> TRUE, priority |-> "urgent",
           matchedKeywords |-> urgentMatches, response |-> urgentResponse.message]
     ELSE [isEmergency |-> FALSE, isUrgent |-> FALSE, priority |-> "normal",
           matchedKeywords |-> <<>>, response |-> <<>>]

\* detectProhibitedTopic with prohibitedMatches.length > 1
detectProhibitedTopic_OffByOne(message) ==
  LET lowerMessage == toLowerCase(message)
      prohibitedMatches ==
        SelectSeq(prohibitedTopics, LAMBDA k : includes(lowerMessage, toLowerCase(k)))
  IN IF Len(prohibitedMatches) > 1
     THEN [isProhibited |-> TRUE, matchedTopics |-> prohibitedMatches,
           response |-> refusalResponse.message]
     ELSE [isProhibited |-> FALSE, matchedTopics |-> <<>>, response |-> <<>>]

detectProhibitedTopic(message) ==
  LET lowerMessage == toLowerCase(message)
      prohibitedMatches ==
        SelectSeq(prohibitedTopics, LAMBDA k : includes(lowerMessage, toLowerCase(k)))
  IN IF Len(prohibitedMatches) > 0
     THEN [isProhibited |-> TRUE, matchedTopics |-> prohibitedMatches,
           response |-> refusalResponse.message]
     ELSE [isProhibited |-> FALSE, matchedTopics |-> <<>>, response |-> <<>>]

\* a run of one or more whitespace atoms ends just before position j
WsRun(text, i, j) == j > i + 1 /\ \A k \in (i + 1)..(j - 1) : text[k] \in Whitespace

IsWord(a) == a \notin Whitespace /\ a \notin {"<|assistant|>", "<|user|>", "<|system|>", "<|end|>"}

\* /you have\s+(?:a|an|the)\s+\w+/i and /this is\s+(?:a|an|the)\s+\w+/i
ArticlePattern(text, head) ==
  \E i, j, k \in DOMAIN text :
    /\ Lower(text[i]) = head
    /\ WsRun(text, i, j)
    /\ Lower(text[j]) \in {"a", "an", "the"}
    /\ WsRun(text, j, k)
    /\ IsWord(text[k])

diagnosisPatterns(text) ==
  \/ ArticlePattern(text, "you have")
  \/ ArticlePattern(text, "this is")
  \/ includes(toLowerCase(text), <<"you are suffering from">>)
  \/ includes(toLowerCase(text), <<"diagnosis is">>)

validateResponse(response) ==
  LET lowerResponse == toLowerCase(response)
      restrictedMatches ==
        SelectSeq(restrictedActions, LAMBDA k : includes(lowerResponse, toLowerCase(k)))
  IN IF Len(restrictedMatches) > 0
     THEN [isValid |-> FALSE, reason |-> "Response contains prohibited medical actions"]
     ELSE IF diagnosisPatterns(response)
     THEN [isValid |-> FALSE, reason |-> "Response contains diagnostic statements"]
     ELSE [isValid |-> TRUE, reason |-> None]

\* --------------------------------------------------------- llama-service.js
ControlTokens == {"<|assistant|>", "<|user|>", "<|system|>", "<|end|>"}

\* .replace(/<\|assistant\|>/gi,'') ... .trim()
CleanContent(raw) == trim(SelectSeq(raw, LAMBDA a : Lower(a) \notin ControlTokens))

\* ------------------------------------------------------------------- state
Kinds == {"send", "stream"}

\* what the patient sends (after the route's validate/sanitize middleware)
Messages ==
  { <<"hello">>,
    <<"i have", " ", "CHEST PAIN">>,
    <<"high fever">>,
    <<"abortion">>,
    <<"abortion", " ", "chest pain">>,
    <<"high fever", " ", "abortion">> }

\* what one data event of the engine's stream carries in data.content
Fragments ==
  { <<"You have", " ">>,
    <<"a", " ", "cold", "<|end|>">>,
    <<"Prescribe">> }

FragSeqs == UNION {[1..n -> Fragments] : n \in 0..MaxFrags}

\* no row: getConversation returns null
NoConv == [status |-> "absent", staff_id |-> None, closed_at |-> 0]
\* no response written yet
NoResponse == [code |-> 0, message |-> <<>>, metadata |-> {}]

VARIABLES
  safetyMode,      \* modelConfig.safetyMode (MEDICAL_SAFETY_MODE)
  conv,            \* the ai_conversations row of the session, or None
  messages,        \* ai_messages of the conversation, in created_at order
  handoffs,        \* ai_handoff_requests of the conversation, in created_at order
  activeSessions,  \* ChatController.activeSessions.get(sessionId)
  turn,            \* the patient turn handlers, one record per handler slot
  staffIds,        \* the staff identities the proxy sends in X-Staff-Id
  reply            \* res.json(..) of the last read-only handler

vars == <<safetyMode, conv, messages, handoffs, activeSessions, turn, staffIds, reply>>

\* what the turn handlers and the staff handlers never write
fixed == <<safetyMode, staffIds, reply>>

\* no read-only handler has answered yet
NoReply == [op |-> None, arg |-> 0, rows |-> <<>>]

\* the handler slots of the specification
Turns == DOMAIN turn

IdleTurn ==
  [ pc |-> "idle", kind |-> "send", msg |-> <<>>,
    conversation |-> NoConv,   \* the row sendMessage read at its first await
    isCancelled |-> FALSE,   \* sendMessageStream's local isCancelled
    hCancelled |-> FALSE,    \* sessionData.isCancelled of this turn's handle
    aborted |-> FALSE,       \* abortController.signal.aborted
    closed |-> FALSE,        \* req 'close' has fired
    ended |-> FALSE,         \* res.writableEnded
    heartbeatInterval |-> FALSE,  \* the heartbeat timer is set
    heartbeats |-> 0,        \* heartbeat events written to the response
    events |-> <<>>,         \* SSE events written, heartbeats left out
    response |-> NoResponse,      \* res.status(..).json(..) of sendMessage
    raw |-> <<>>,            \* the engine's text so far (service fullContent)
    tokenCount |-> 0,
    fullContent |-> <<>>,    \* the controller's fullContent
    urgentPrefix |-> <<>>,
    finalResponse |-> <<>>,
    metadata |-> {},
    engineCalls |-> 0,       \* calls of llamaService made by this turn
    saved |-> <<>>,          \* assistant contents this turn persisted
    handoffsMade |-> <<>>,   \* handoff rows this turn inserted
    outcome |-> None ]

Init ==
  /\ safetyMode \in BOOLEAN
  /\ conv = NoConv
  /\ messages = <<>>
  /\ handoffs = <<>>
  /\ activeSessions = None
  /\ turn = [t \in {"t1"} |-> IdleTurn]
  /\ staffIds = {"staffA"}
  /\ reply = NoReply

\* ------------------------------------------------- conversation-service.js
Msg(role, content, metadata) == [role |-> role, content |-> content, metadata |-> metadata]

\* addMessage: INSERT INTO ai_messages
addMessage(role, content, metadata) == Append(messages, Msg(role, content, metadata))

\* createSession: the conversation row and the greeting
CreateSession ==
  /\ conv = NoConv
  /\ conv' = [status |-> "ai-active", staff_id |-> None, closed_at |-> 0]
  /\ messages' = addMessage("assistant", Greeting, {"isGreeting"})
  /\ UNCHANGED <<fixed, handoffs, activeSessions, turn>>

\* closeConversation: UPDATE ... SET status = 'closed', closed_at = NOW()
\* WHERE session_id = $1; closed_at 0 is NULL
closeConversation(c, now) == [c EXCEPT !.status = "closed", !.closed_at = now]

\* NOW() of a statement, up to order: the instant of the closed_at already in
\* the row, or the next one
Stamps(c) == {n \in 1..MaxStamp : n \in {c.closed_at, c.closed_at + 1}}

\* closeSession: closeConversation, whose UPDATE finds the row of the session
\* or no row, then success; now is NOW() of the UPDATE
closeSession(now) ==
  [code |-> 200, conv |-> IF conv = NoConv THEN conv ELSE closeConversation(conv, now)]

CloseSession(now) ==
  /\ conv' = closeSession(now).conv
  /\ UNCHANGED <<fixed, messages, handoffs, activeSessions, turn>>

Reverse(rows) == [i \in 1..Len(rows) |-> rows[Len(rows) + 1 - i]]

\* LIMIT n
Limit(rows, n) == SubSeq(rows, 1, IF n < Len(rows) THEN n ELSE Len(rows))

\* getContextMessages without result.rows.reverse()
getContextMessages_NoReverse(maxMessages) ==
  LET rows == Limit(Reverse(SelectSeq(messages, LAMBDA m : "isGreeting" \notin m.metadata)),
                    maxMessages)
  IN [i \in 1..Len(rows) |-> [role |-> rows[i].role, content |-> rows[i].content]]

\* getContextMessages: SELECT role, content .. WHERE metadata->>'isGreeting' IS NULL
\* ORDER BY created_at DESC LIMIT $2, then reverse() and map
getContextMessages(maxMessages) ==
  LET rows == Limit(Reverse(SelectSeq(messages, LAMBDA m : "isGreeting" \notin m.metadata)),
                    maxMessages)
      reversed == Reverse(rows)
  IN [i \in 1..Len(reversed) |-> [role |-> reversed[i].role, content |-> reversed[i].content]]

\* getHistory with ORDER BY created_at DESC
getHistory_Desc(limit) ==
  IF conv = NoConv THEN [threw |-> TRUE, rows |-> <<>>]
  ELSE [threw |-> FALSE, rows |-> Limit(Reverse(messages), limit)]

\* getHistory(sessionId, limit): throws 'Conversation not found', else
\* SELECT .. ORDER BY created_at ASC LIMIT $2
getHistory(limit) ==
  IF conv = NoConv THEN [threw |-> TRUE, rows |-> <<>>]
  ELSE [threw |-> FALSE, rows |-> Limit(messages, limit)]

\* a call of getContextMessages(sessionId, maxMessages) and what it returns
ContextQuery(maxMessages) ==
  /\ conv # NoConv
  /\ reply' = [op |-> "getContextMessages", arg |-> maxMessages,
               rows |-> getContextMessages(maxMessages)]
  /\ UNCHANGED <<safetyMode, staffIds, conv, messages, handoffs, activeSessions, turn>>

\* the ages in hours a conversation can have at the time of a check
Ages == 0..(maxSessionDurationHours + 1)

\* checkLimits with hoursDiff > maxSessionDurationHours
checkLimits_Strict(hoursDiff) ==
  IF conv = NoConv THEN [exceeded |-> TRUE, reason |-> "Conversation not found"]
  ELSE IF Len(messages) >= maxMessagesPerSession
  THEN [exceeded |-> TRUE, reason |-> "Maximum messages reached"]
  ELSE IF hoursDiff > maxSessionDurationHours
  THEN [exceeded |-> TRUE, reason |-> "Maximum session duration reached"]
  ELSE [exceeded |-> FALSE, reason |-> None]

\* checkLimits: hoursDiff is (now - created_at) in hours at the time of the
\* check; the count is COUNT(*) of the conversation's messages
checkLimits(hoursDiff) ==
  IF conv = NoConv THEN [exceeded |-> TRUE, reason |-> "Conversation not found"]
  ELSE IF Len(messages) >= maxMessagesPerSession
  THEN [exceeded |-> TRUE, reason |-> "Maximum messages reached"]
  ELSE IF hoursDiff >= maxSessionDurationHours
  THEN [exceeded |-> TRUE, reason |-> "Maximum session duration reached"]
  ELSE [exceeded |-> FALSE, reason |-> None]

\* getActiveConversations: WHERE c.status IN ('ai-active', 'staff-taken')
getActiveConversations ==
  IF conv # NoConv /\ conv.status \in {"ai-active", "staff-taken"} THEN <<conv>> ELSE <<>>

\* ------------------------------------------------------- chat-controller.js
Ev(type, token, content, code) ==
  [type |-> type, token |-> token, content |-> content, code |-> code]

\* the guard of sendEvent: if (!isCancelled && !res.writableEnded)
sendEventOpen(tr) == ~tr.isCancelled /\ ~tr.ended

\* sendEvent(event, data): the events of the response after the call
sendEvent(tr, ev) == IF sendEventOpen(tr) THEN Append(tr.events, ev) ELSE tr.events

RECURSIVE sendEvents(_, _)
sendEvents(tr, evs) ==
  IF evs = <<>> THEN tr.events
  ELSE sendEvents([tr EXCEPT !.events = sendEvent(tr, Head(evs))], Tail(evs))

Json(code, message, metadata) == [code |-> code, message |-> message, metadata |-> metadata]

\* the status check against 'closed' instead of 'staff-taken'
statusForbidden_Closed(conversation) == conversation.status = "closed"

\* if (conversation.status === 'staff-taken') return 403
statusForbidden(conversation) == conversation.status = "staff-taken"

\* createHandoffRequest: INSERT INTO ai_handoff_requests (.., status) VALUES (.., 'pending')
createHandoffRequest(reason, priority) ==
  [reason |-> reason, priority |-> priority, status |-> "pending", assigned_staff_id |-> None]

\* activeSessions.delete(sessionId)
activeSessionsDelete == None

\* the request arrives: the synchronous code up to the first await
StartTurn(t, kind, msg) ==
  /\ turn[t].pc = "idle"
  /\ turn' = [turn EXCEPT ![t] = [IdleTurn EXCEPT !.pc = "getConv", !.kind = kind, !.msg = msg,
                                                   !.heartbeatInterval = (kind = "stream")]]
  /\ activeSessions' = IF kind = "stream" THEN t ELSE activeSessions
  /\ UNCHANGED <<fixed, conv, messages, handoffs>>

\* the end of a rejected request without clearInterval(heartbeatInterval)
Reject_KeepInterval(tr, status, code) ==
  IF tr.kind = "send"
  THEN [tr EXCEPT !.pc = "ended", !.outcome = code,
                  !.response = Json(status, <<>>, {code})]
  ELSE [tr EXCEPT !.pc = "ended", !.outcome = code, !.ended = TRUE,
                  !.events = sendEvent(tr, Ev("error", <<>>, <<>>, code))]

\* the end of a rejected request: 404 / 403 / 429, or the matching error event
Reject(tr, status, code) ==
  IF tr.kind = "send"
  THEN [tr EXCEPT !.pc = "ended", !.outcome = code,
                  !.response = Json(status, <<>>, {code})]
  ELSE [tr EXCEPT !.pc = "ended", !.outcome = code, !.ended = TRUE, !.heartbeatInterval = FALSE,
                  !.events = sendEvent(tr, Ev("error", <<>>, <<>>, code))]

\* of the row getConversation returns the handlers use id and status
Read(c) == [c EXCEPT !.staff_id = None, !.closed_at = 0]

\* await conversationService.getConversation(sessionId), then the status check
GetConversation(t) ==
  /\ turn[t].pc = "getConv"
  /\ turn' = [turn EXCEPT ![t] =
       IF conv = NoConv THEN Reject(@, 404, "NOT_FOUND")
       ELSE IF statusForbidden(conv) THEN Reject([@ EXCEPT !.conversation = Read(conv)], 403, "FORBIDDEN")
       ELSE [@ EXCEPT !.pc = "checkLimits", !.conversation = Read(conv)]]
  /\ UNCHANGED <<fixed, conv, messages, handoffs, activeSessions>>

\* await conversationService.checkLimits(sessionId)
CheckLimits(t, hoursDiff) ==
  /\ turn[t].pc = "checkLimits"
  /\ turn' = [turn EXCEPT ![t] =
       IF checkLimits(hoursDiff).exceeded THEN Reject(@, 429, "RATE_LIMITED")
       ELSE [@ EXCEPT !.pc = "addUser"]]
  /\ UNCHANGED <<fixed, conv, messages, handoffs, activeSessions>>

\* the user message, with the classification consulted in fast mode too
AddUserMessage_AlwaysClassify(t) ==
  /\ turn[t].pc = "addUser"
  /\ messages' = addMessage("user", turn[t].msg, {})
  /\ turn' = [turn EXCEPT ![t].pc =
       IF detectEmergency(turn[t].msg).isEmergency THEN "addEmergency"
       ELSE IF detectProhibitedTopic(turn[t].msg).isProhibited THEN "addRefusal"
       ELSE IF ~safetyMode THEN "fastCtx"
       ELSE "getCtx"]
  /\ UNCHANGED <<fixed, conv, handoffs, activeSessions>>

\* the user message, with the prohibited-topic branch taken before the
\* emergency branch
AddUserMessage_ProhibitedFirst(t) ==
  /\ turn[t].pc = "addUser"
  /\ messages' = addMessage("user", turn[t].msg, {})
  /\ turn' = [turn EXCEPT ![t].pc =
       IF ~safetyMode THEN "fastCtx"
       ELSE IF detectProhibitedTopic(turn[t].msg).isProhibited THEN "addRefusal"
       ELSE IF detectEmergency(turn[t].msg).isEmergency THEN "addEmergency"
       ELSE "getCtx"]
  /\ UNCHANGED <<fixed, conv, handoffs, activeSessions>>

\* await addMessage(conversation.id, 'user', message, {}), then the mode and
\* the incoming classification choose the next await
AddUserMessage(t) ==
  /\ turn[t].pc = "addUser"
  /\ messages' = addMessage("user", turn[t].msg, {})
  /\ turn' = [turn EXCEPT ![t].pc =
       IF ~safetyMode THEN "fastCtx"
       ELSE IF detectEmergency(turn[t].msg).isEmergency THEN "addEmergency"
       ELSE IF detectProhibitedTopic(turn[t].msg).isProhibited THEN "addRefusal"
       ELSE "getCtx"]
  /\ UNCHANGED <<fixed, conv, handoffs, activeSessions>>

\* await addMessage(.., 'assistant', emergencyMessage, ..)
AddEmergencyMessage(t) ==
  /\ turn[t].pc = "addEmergency"
  /\ LET emergencyMessage == detectEmergency(turn[t].msg).response
     IN /\ messages' = addMessage("assistant", emergencyMessage,
                                  {"safetyOverride", "emergencyResponse"})
        /\ turn' = [turn EXCEPT ![t].pc = "handoff",
                                ![t].saved = Append(@, emergencyMessage)]
  /\ UNCHANGED <<fixed, conv, handoffs, activeSessions>>

\* await this.createHandoffRequest(conversation.id, 'emergency', 'emergency'),
\* then the response (send) or start, token, done and res.end() (stream)
CreateHandoff(t) ==
  /\ turn[t].pc = "handoff"
  /\ LET emergencyMessage == detectEmergency(turn[t].msg).response
         row == createHandoffRequest("emergency", "emergency")
         tr == turn[t]
     IN /\ handoffs' = Append(handoffs, row)
        /\ turn' = [turn EXCEPT ![t] =
             IF tr.kind = "send"
             THEN [tr EXCEPT !.pc = "ended", !.outcome = "emergency",
                             !.handoffsMade = Append(@, row),
                             !.response = Json(200, emergencyMessage, {})]
             ELSE [tr EXCEPT !.pc = "ended", !.outcome = "emergency", !.ended = TRUE, !.heartbeatInterval = FALSE,
                             !.handoffsMade = Append(@, row),
                             !.events = sendEvents(tr,
                                << Ev("start", <<>>, <<>>, None),
                                   Ev("token", emergencyMessage, emergencyMessage, None),
                                   Ev("done", <<>>, emergencyMessage, None) >>)]]
  /\ UNCHANGED <<fixed, conv, messages, activeSessions>>

\* await addMessage(.., 'assistant', refusalMessage, ..), then the response
AddRefusalMessage(t) ==
  /\ turn[t].pc = "addRefusal"
  /\ LET refusalMessage == detectProhibitedTopic(turn[t].msg).response
         tr == turn[t]
     IN /\ messages' = addMessage("assistant", refusalMessage, {"safetyOverride", "refusal"})
        /\ turn' = [turn EXCEPT ![t] =
             IF tr.kind = "send"
             THEN [tr EXCEPT !.pc = "ended", !.outcome = "refusal",
                             !.saved = Append(@, refusalMessage),
                             !.response = Json(200, refusalMessage, {})]
             ELSE [tr EXCEPT !.pc = "ended", !.outcome = "refusal", !.ended = TRUE, !.heartbeatInterval = FALSE,
                             !.saved = Append(@, refusalMessage),
                             !.events = sendEvents(tr,
                                << Ev("start", <<>>, <<>>, None),
                                   Ev("token", refusalMessage, refusalMessage, None),
                                   Ev("done", <<>>, refusalMessage, None) >>)]]
  /\ UNCHANGED <<fixed, conv, handoffs, activeSessions>>

\* sendMessage without validateResponse: the generated text as it is
sendFinal_NoValidation(msg, content) ==
  LET emergencyDetection == detectEmergency(msg)
  IN IF emergencyDetection.isUrgent
     THEN [finalResponse |-> emergencyDetection.response \o <<"\n\n">> \o content,
           metadata |-> {"urgentGuidance"}]
     ELSE [finalResponse |-> content, metadata |-> {}]

\* sendMessage lines 180-204: validation, deflection, urgent advisory
sendFinal(msg, content) ==
  LET validation == validateResponse(content)
      emergencyDetection == detectEmergency(msg)
      checked == IF validation.isValid THEN content ELSE Deflection
      meta0 == IF validation.isValid THEN {} ELSE {"safetyOverride"}
  IN IF emergencyDetection.isUrgent
     THEN [finalResponse |-> emergencyDetection.response \o <<"\n\n">> \o checked,
           metadata |-> meta0 \cup {"urgentGuidance"}]
     ELSE [finalResponse |-> checked, metadata |-> meta0]

\* sendMessageStream without the replacement of an invalid response
streamFinal_KeepRaw(msg, urgentPrefix, content) ==
  LET validation == validateResponse(content)
  IN [finalResponse |-> urgentPrefix \o content,
      metadata |-> {"streamed"} \cup (IF validation.isValid THEN {"validated"}
                                      ELSE {"safetyOverride", "validationFailed"})]

\* sendMessageStream lines 427-454
streamFinal(msg, urgentPrefix, content) ==
  LET validation == validateResponse(content)
      emergencyDetection == detectEmergency(msg)
      meta0 == {"streamed"} \cup (IF validation.isValid THEN {"validated"} ELSE {})
      meta1 == IF validation.isValid THEN meta0
               ELSE meta0 \cup {"safetyOverride", "validationFailed"}
  IN [finalResponse |-> IF validation.isValid THEN urgentPrefix \o content ELSE Deflection,
      metadata |-> IF emergencyDetection.isUrgent THEN meta1 \cup {"urgentGuidance"} ELSE meta1]

\* await getContextMessages(sessionId, 10), then (stream) the start event and
\* the urgent advisory token, then the call of the Inference Client
GetContextMessages(t) ==
  /\ turn[t].pc \in {"getCtx", "fastCtx"}
  /\ LET tr == turn[t]
         urgent == safetyMode /\ detectEmergency(tr.msg).isUrgent
         urgentPrefix == IF urgent THEN detectEmergency(tr.msg).response \o <<"\n\n">> ELSE <<>>
     IN turn' = [turn EXCEPT ![t] =
          IF tr.kind = "send"
          THEN [tr EXCEPT !.pc = "engine", !.engineCalls = @ + 1]
          ELSE [tr EXCEPT !.pc = "post", !.engineCalls = @ + 1,
                          !.urgentPrefix = urgentPrefix,
                          !.fullContent = urgentPrefix,
                          !.events = sendEvents(tr,
                             IF urgent
                             THEN << Ev("start", <<>>, <<>>, None),
                                     Ev("token", urgentPrefix, urgentPrefix, None) >>
                             ELSE << Ev("start", <<>>, <<>>, None) >>)]]
  /\ UNCHANGED <<fixed, conv, messages, handoffs, activeSessions>>

\* sendMessage's catch: 500 INTERNAL_ERROR
sendCatch(tr) ==
  [tr EXCEPT !.pc = "ended", !.outcome = "error",
             !.response = Json(500, <<>>, {"INTERNAL_ERROR"})]

\* what the Inference Client throws: the engine is unreachable (ECONNREFUSED),
\* its response holds no content, its stream ends without content
CannotConnect == [name |-> "Error", message |-> "Cannot connect to LLaMA server"]
InvalidResponse == [name |-> "Error", message |-> "Invalid response from LLaMA server"]
EmptyStreaming == [name |-> "Error", message |-> "Empty response from streaming"]

\* catch (error) of sendMessage: the error is logged, the answer is fixed
sendMessageCatch(tr, error) == sendCatch(tr)

\* await llamaService.generateResponse(contextMessages) resolves or throws
\* 'Invalid response from LLaMA server' on empty content
GenerateResponse(t, frs) ==
  /\ turn[t].pc = "engine"
  /\ LET tr == turn[t]
         raw == Flatten(frs)
         content == CleanContent(raw)
         fin == sendFinal(tr.msg, content)
     IN turn' = [turn EXCEPT ![t] =
          IF raw = <<>> THEN sendMessageCatch(tr, InvalidResponse)
          ELSE IF ~safetyMode
          THEN [tr EXCEPT !.pc = "fastAddAsst", !.raw = raw, !.finalResponse = content,
                          !.metadata = {"fastMode"}]
          ELSE [tr EXCEPT !.pc = "addAsst", !.raw = raw,
                          !.finalResponse = fin.finalResponse, !.metadata = fin.metadata]]
  /\ UNCHANGED <<fixed, conv, messages, handoffs, activeSessions>>

\* the engine is unreachable (ECONNREFUSED) or the request times out
GenerateResponseFails(t) ==
  /\ turn[t].pc = "engine"
  /\ turn' = [turn EXCEPT ![t] = sendMessageCatch(@, CannotConnect)]
  /\ UNCHANGED <<fixed, conv, messages, handoffs, activeSessions>>

\* sendMessageStream's catch, after activeSessions.delete(sessionId)
streamCatch(tr, errorName) ==
  IF errorName = "AbortError" \/ tr.isCancelled
  THEN [tr EXCEPT !.pc = "ended", !.outcome = "cancelled", !.ended = TRUE, !.heartbeatInterval = FALSE]
  ELSE [tr EXCEPT !.pc = "ended", !.outcome = "error", !.ended = TRUE, !.heartbeatInterval = FALSE,
                  !.events = sendEvent(tr, Ev("error", <<>>, <<>>, "INTERNAL_ERROR"))]

\* catch (error) of sendMessageStream: of the error, error.name is consulted
sendMessageStreamCatch(tr, error) == streamCatch(tr, error.name)

\* the INSERT of createHandoffRequest rejects: the helper rethrows and the
\* handler's catch answers
CreateHandoffFails(t) ==
  /\ turn[t].pc = "handoff"
  /\ turn' = [turn EXCEPT ![t] =
       IF @.kind = "send" THEN sendCatch(@) ELSE streamCatch(@, "Error")]
  /\ activeSessions' = IF turn[t].kind = "stream" THEN activeSessionsDelete ELSE activeSessions
  /\ UNCHANGED <<fixed, conv, messages, handoffs>>

\* error.name of what an aborted engine call rejects with: new Error('AbortError')
\* of the service's abort listener, or the HTTP client's CanceledError
AbortErrorNames == {"Error", "CanceledError"}

\* await axios.post(.., {responseType: 'stream', signal}) resolves
PostResponse(t) ==
  /\ turn[t].pc = "post"
  /\ ~turn[t].aborted
  /\ turn' = [turn EXCEPT ![t].pc = "streaming"]
  /\ UNCHANGED <<fixed, conv, messages, handoffs, activeSessions>>

\* the engine is unreachable, or its response stream emits 'error'
StreamFails(t) ==
  /\ turn[t].pc \in {"post", "streaming"}
  /\ ~turn[t].aborted
  /\ turn' = [turn EXCEPT ![t] = sendMessageStreamCatch(@, CannotConnect)]
  /\ activeSessions' = activeSessionsDelete
  /\ UNCHANGED <<fixed, conv, messages, handoffs>>

\* the signal is aborted: the pending engine call rejects
StreamAborted(t, errorName) ==
  /\ turn[t].pc \in {"post", "streaming"}
  /\ turn[t].aborted
  /\ turn' = [turn EXCEPT ![t] = streamCatch(@, errorName)]
  /\ activeSessions' = activeSessionsDelete
  /\ UNCHANGED <<fixed, conv, messages, handoffs>>

\* the relay of a fragment with the fragment as the token event's content
StreamData_FragmentOnly(t, f) ==
  /\ turn[t].pc = "streaming"
  /\ ~turn[t].aborted
  /\ turn[t].tokenCount < MaxFrags
  /\ LET tr == turn[t]
     IN turn' = [turn EXCEPT ![t] =
          IF ~tr.isCancelled
          THEN [tr EXCEPT !.raw = @ \o f, !.tokenCount = @ + 1,
                          !.fullContent = @ \o f,
                          !.events = sendEvent(tr, Ev("token", f, f, None))]
          ELSE [tr EXCEPT !.raw = @ \o f, !.tokenCount = @ + 1]]
  /\ UNCHANGED <<fixed, conv, messages, handoffs, activeSessions>>

\* response.data 'data': one fragment, relayed through onToken
StreamData(t, f) ==
  /\ turn[t].pc = "streaming"
  /\ ~turn[t].aborted
  /\ turn[t].tokenCount < MaxFrags
  /\ LET tr == turn[t]
     IN turn' = [turn EXCEPT ![t] =
          IF ~tr.isCancelled
          THEN [tr EXCEPT !.raw = @ \o f, !.tokenCount = @ + 1,
                          !.fullContent = @ \o f,
                          !.events = sendEvent(tr, Ev("token", f, tr.fullContent \o f, None))]
          ELSE [tr EXCEPT !.raw = @ \o f, !.tokenCount = @ + 1]]
  /\ UNCHANGED <<fixed, conv, messages, handoffs, activeSessions>>

\* the streaming call resolved with content: the code after the await
streamResolved(tr, content) ==
  IF ~safetyMode
  THEN (IF ~tr.isCancelled
        THEN [tr EXCEPT !.pc = "fastAddAsst", !.finalResponse = content,
                        !.metadata = {"fastMode", "streamed"}]
        ELSE [tr EXCEPT !.pc = "ended", !.outcome = "cancelled", !.ended = TRUE, !.heartbeatInterval = FALSE])
  ELSE LET fin == streamFinal(tr.msg, tr.urgentPrefix, content)
       IN IF ~tr.isCancelled
          THEN [tr EXCEPT !.pc = "addAsst", !.finalResponse = fin.finalResponse,
                          !.metadata = fin.metadata]
          ELSE [tr EXCEPT !.pc = "ended", !.outcome = "cancelled", !.ended = TRUE, !.heartbeatInterval = FALSE,
                          !.finalResponse = fin.finalResponse, !.metadata = fin.metadata]

\* the entry of activeSessions after the code that follows the streaming call
afterResolved(tr) ==
  IF safetyMode /\ tr.isCancelled THEN activeSessionsDelete ELSE activeSessions

\* a data event with data.stop: resolve with the cleaned content
StreamStop(t) ==
  /\ turn[t].pc = "streaming"
  /\ ~turn[t].aborted
  /\ turn' = [turn EXCEPT ![t] = streamResolved(@, CleanContent(@.raw))]
  /\ activeSessions' = afterResolved(turn[t])
  /\ UNCHANGED <<fixed, conv, messages, handoffs>>

\* response.data 'end' without a stop: resolve if the cleaned content is not
\* empty, else reject with 'Empty response from streaming'
StreamEnd(t) ==
  /\ turn[t].pc = "streaming"
  /\ ~turn[t].aborted
  /\ LET content == CleanContent(turn[t].raw)
     IN IF content # <<>>
        THEN /\ turn' = [turn EXCEPT ![t] = streamResolved(@, content)]
             /\ activeSessions' = afterResolved(turn[t])
        ELSE /\ turn' = [turn EXCEPT ![t] = sendMessageStreamCatch(@, EmptyStreaming)]
             /\ activeSessions' = activeSessionsDelete
  /\ UNCHANGED <<fixed, conv, messages, handoffs>>

\* await addMessage(.., 'assistant', finalResponse, responseMetadata), then the
\* response (send) or the done event and res.end() (stream)
AddAssistantMessage(t) ==
  /\ turn[t].pc \in {"addAsst", "fastAddAsst"}
  /\ LET tr == turn[t]
     IN /\ messages' = addMessage("assistant", tr.finalResponse, tr.metadata)
        /\ turn' = [turn EXCEPT ![t] =
             IF tr.kind = "send"
             THEN [tr EXCEPT !.pc = "ended", !.outcome = "generated",
                             !.saved = Append(@, tr.finalResponse),
                             !.response = Json(200, tr.finalResponse, tr.metadata)]
             ELSE [tr EXCEPT !.pc = "ended", !.outcome = "generated", !.ended = TRUE, !.heartbeatInterval = FALSE,
                             !.saved = Append(@, tr.finalResponse),
                             !.events = sendEvent(tr, Ev("done", <<>>, tr.finalResponse, None))]]
        /\ activeSessions' =
             IF tr.kind = "stream" /\ tr.pc = "addAsst" THEN activeSessionsDelete
             ELSE activeSessions
  /\ UNCHANGED <<fixed, conv, handoffs>>

\* what a failed store query rejects with: the driver's error, which
\* addMessage logs and rethrows
QueryFailed == [name |-> "error", message |-> "query failed"]

\* the INSERT (or the UPDATE of updated_at) of addMessage(.., 'assistant', ..)
\* rejects: addMessage rethrows and the handler's catch answers
AddAssistantMessageFails(t) ==
  /\ turn[t].pc \in {"addAsst", "fastAddAsst"}
  /\ turn' = [turn EXCEPT ![t] =
       IF @.kind = "send" THEN sendMessageCatch(@, QueryFailed)
       ELSE sendMessageStreamCatch(@, QueryFailed)]
  /\ activeSessions' = IF turn[t].kind = "stream" THEN activeSessionsDelete ELSE activeSessions
  /\ UNCHANGED <<fixed, conv, messages, handoffs>>

\* cancelGeneration on the handlers tn: success in both cases; with an entry in
\* activeSessions, flag the entry's handle and abort its controller
cancelGeneration(tn) ==
  IF activeSessions \in DOMAIN tn
  THEN [code |-> 200,
        turn |-> [tn EXCEPT ![activeSessions].hCancelled = TRUE,
                            ![activeSessions].aborted = TRUE]]
  ELSE [code |-> 200, turn |-> tn]

CancelGeneration ==
  /\ turn' = cancelGeneration(turn).turn
  /\ UNCHANGED <<fixed, conv, messages, handoffs, activeSessions>>

\* sessionData.isCancelled of the handle the session's entry refers to
entryCancelled ==
  IF activeSessions \in Turns THEN turn[activeSessions].hCancelled ELSE FALSE

\* req.on('close'): the client's connection is closed
ClientClose(t) ==
  /\ turn[t].kind = "stream"
  /\ turn[t].pc # "idle"
  /\ ~turn[t].ended
  /\ ~turn[t].closed
  /\ turn' = [turn EXCEPT ![t].closed = TRUE,
                          ![t].heartbeatInterval = FALSE,
                          ![t].isCancelled = @ \/ entryCancelled \/ ~turn[t].ended,
                          ![t].aborted = @ \/ ~turn[t].ended]
  /\ UNCHANGED <<fixed, conv, messages, handoffs, activeSessions>>

\* the callback of setInterval(.., 15000): a heartbeat event
\* if (!isCancelled && !res.writableEnded)
Heartbeat(t) ==
  /\ turn[t].heartbeatInterval
  /\ turn[t].heartbeats < MaxBeats
  /\ turn' = [turn EXCEPT ![t].heartbeats =
       IF ~turn[t].isCancelled /\ ~turn[t].ended THEN @ + 1 ELSE @]
  /\ UNCHANGED <<fixed, conv, messages, handoffs, activeSessions>>

\* the default limit of getHistory(sessionId, limit = 50): the number of rows
\* maxMessagesPerSession names, which is 50 too
historyLimit == maxMessagesPerSession

\* ChatController.getHistory: the history, or 500 INTERNAL_ERROR when the
\* service throws
getHistoryResponse ==
  LET history == getHistory(historyLimit)
  IN IF history.threw THEN [code |-> 500, error |-> "INTERNAL_ERROR", messages |-> <<>>]
     ELSE [code |-> 200, error |-> None, messages |-> history.rows]

\* ---------------------------------------------------- handoff-controller.js
\* A staff handler is one step: its store statements run on one conversation
\* without another handler between them.
\* the staff operations that succeeded so far: each left one message
StaffOpsDone == Len(SelectSeq(messages, LAMBDA m : m.role \in {"system", "staff"}))

\* updateStatus: UPDATE ai_conversations SET status = $1, staff_id = $2
updateStatus(c, status, staffId) == [c EXCEPT !.status = status, !.staff_id = staffId]

\* what a staff handler answers and leaves in the store
StaffResult(code, c, h, m) == [code |-> code, conv |-> c, handoffs |-> h, messages |-> m]

\* takeoverChat: 404, or updateStatus, the handoff update and the system message
takeoverChat(s) ==
  IF conv = NoConv THEN StaffResult(404, conv, handoffs, messages)
  ELSE StaffResult(200,
         updateStatus(conv, "staff-taken", s),
         [i \in DOMAIN handoffs |->
            IF handoffs[i].status = "pending"
            THEN [handoffs[i] EXCEPT !.status = "assigned", !.assigned_staff_id = s]
            ELSE handoffs[i]],
         addMessage("system", <<"STAFF_JOINED">>, {"takeover", s}))

TakeoverChat(s) ==
  /\ StaffOpsDone < MaxStaffOps
  /\ LET r == takeoverChat(s)
     IN /\ conv' = r.conv
        /\ handoffs' = r.handoffs
        /\ messages' = r.messages
  /\ UNCHANGED <<fixed, activeSessions, turn>>

\* the owner check of releaseChat replaced by a status check
releaseForbidden_StatusOnly(conversation, staffId) == conversation.status # "staff-taken"

\* if (conversation.staff_id !== staffId) return 403
releaseForbidden(conversation, staffId) == conversation.staff_id # staffId

\* releaseChat: 404, 403, or updateStatus, the handoff update and the system message
releaseChat(s) ==
  IF conv = NoConv THEN StaffResult(404, conv, handoffs, messages)
  ELSE IF releaseForbidden(conv, s) THEN StaffResult(403, conv, handoffs, messages)
  ELSE StaffResult(200,
         updateStatus(conv, "ai-active", None),
         [i \in DOMAIN handoffs |->
            IF handoffs[i].status = "assigned"
            THEN [handoffs[i] EXCEPT !.status = "resolved"]
            ELSE handoffs[i]],
         addMessage("system", <<"RETURNED_TO_AI">>, {"release", s}))

ReleaseChat(s) ==
  /\ StaffOpsDone < MaxStaffOps
  /\ LET r == releaseChat(s)
     IN /\ conv' = r.conv
        /\ handoffs' = r.handoffs
        /\ messages' = r.messages
  /\ UNCHANGED <<fixed, activeSessions, turn>>

\* the check of sendStaffMessage without its status half
staffMessageForbidden_OwnerOnly(conversation, staffId) == conversation.staff_id # staffId

\* if (conversation.staff_id !== staffId || conversation.status !== 'staff-taken') return 403
staffMessageForbidden(conversation, staffId) ==
  conversation.staff_id # staffId \/ conversation.status # "staff-taken"

\* sendStaffMessage: 404, 403, or the staff message
sendStaffMessage(s) ==
  IF conv = NoConv THEN StaffResult(404, conv, handoffs, messages)
  ELSE IF staffMessageForbidden(conv, s) THEN StaffResult(403, conv, handoffs, messages)
  ELSE StaffResult(200, conv, handoffs, addMessage("staff", <<"STAFF_TEXT">>, {s}))

SendStaffMessage(s) ==
  /\ StaffOpsDone < MaxStaffOps
  /\ messages' = sendStaffMessage(s).messages
  /\ UNCHANGED <<fixed, conv, handoffs, activeSessions, turn>>

\* ORDER BY CASE hr.priority WHEN 'high' THEN 1 WHEN 'emergency' THEN 2 ..
priorityRank_HighFirst(priority) ==
  CASE priority = "high" -> 1
    [] priority = "emergency" -> 2
    [] priority = "normal" -> 3
    [] priority = "low" -> 4

\* ORDER BY CASE hr.priority WHEN 'emergency' THEN 1 WHEN 'high' THEN 2
\* WHEN 'normal' THEN 3 WHEN 'low' THEN 4 END
priorityRank(priority) ==
  CASE priority = "emergency" -> 1
    [] priority = "high" -> 2
    [] priority = "normal" -> 3
    [] priority = "low" -> 4

\* getPendingHandoffs: the requests WHERE hr.status = 'pending', by priority
\* rank, then hr.created_at ASC; a request is named by its place in creation
\* order
getPendingHandoffs ==
  LET pending == SelectSeq([i \in DOMAIN handoffs |-> i],
                           LAMBDA i : handoffs[i].status = "pending")
      before(i, j) ==
        \/ priorityRank(handoffs[i].priority) < priorityRank(handoffs[j].priority)
        \/ /\ priorityRank(handoffs[i].priority) = priorityRank(handoffs[j].priority)
           /\ i < j
  IN SortSeq(pending, before)

\* getTranscript: getHistory(sessionId, 1000)
transcriptLimit == 1000

\* getTranscript: the history, or 500 TRANSCRIPT_FETCH_FAILED when the service
\* throws
getTranscript(s) ==
  LET history == getHistory(transcriptLimit)
  IN IF history.threw
     THEN [code |-> 500, error |-> "TRANSCRIPT_FETCH_FAILED", transcript |-> <<>>]
     ELSE [code |-> 200, error |-> None, transcript |-> history.rows]

GetPendingHandoffs ==
  /\ reply' = [op |-> "getPendingHandoffs", arg |-> 0, rows |-> getPendingHandoffs]
  /\ UNCHANGED <<safetyMode, staffIds, conv, messages, handoffs, activeSessions, turn>>

\* ------------------------------------------------------------ specification
\* the patient turn handlers, await by await, next to cancelGeneration and the
\* staff handlers of one staff member
Next ==
  \/ CreateSession
  \/ CancelGeneration
  \/ \E s \in staffIds : TakeoverChat(s)
  \/ \E s \in staffIds : ReleaseChat(s)
  \/ \E s \in staffIds : SendStaffMessage(s)
  \/ \E t \in Turns, k \in Kinds, m \in Messages : StartTurn(t, k, m)
  \/ \E t \in Turns : GetConversation(t)
  \/ \E t \in Turns, age \in Ages : CheckLimits(t, age)
  \/ \E t \in Turns : AddUserMessage(t)
  \/ \E t \in Turns : AddEmergencyMessage(t)
  \/ \E t \in Turns : CreateHandoff(t)
  \/ \E t \in Turns : AddRefusalMessage(t)
  \/ \E t \in Turns : GetContextMessages(t)
  \/ \E t \in Turns, frs \in FragSeqs : GenerateResponse(t, frs)
  \/ \E t \in Turns : GenerateResponseFails(t)
  \/ \E t \in Turns : PostResponse(t)
  \/ \E t \in Turns : StreamFails(t)
  \/ \E t \in Turns, n \in AbortErrorNames : StreamAborted(t, n)
  \/ \E t \in Turns, f \in Fragments : StreamData(t, f)
  \/ \E t \in Turns : StreamStop(t)
  \/ \E t \in Turns : StreamEnd(t)
  \/ \E t \in Turns : AddAssistantMessage(t)
  \/ \E t \in Turns : ClientClose(t)

Spec == Init /\ [][Next]_vars

\* the staff handlers of two staff members, next to createSession, closeSession
\* and the patient turns that end in a short-circuit
InitStaff ==
  /\ safetyMode \in BOOLEAN
  /\ conv = NoConv
  /\ messages = <<>>
  /\ handoffs = <<>>
  /\ activeSessions = None
  /\ turn = [t \in {"t1"} |-> IdleTurn]
  /\ staffIds = {"staffA", "staffB"}
  /\ reply = NoReply

NextStaff ==
  \/ CreateSession
  \/ \E now \in Stamps(conv) : CloseSession(now)
  \/ \E s \in staffIds : TakeoverChat(s)
  \/ \E s \in staffIds : ReleaseChat(s)
  \/ \E s \in staffIds : SendStaffMessage(s)
  \/ \E t \in Turns, k \in Kinds, m \in Messages : StartTurn(t, k, m)
  \/ \E t \in Turns : GetConversation(t)
  \/ \E t \in Turns, age \in Ages : CheckLimits(t, age)
  \/ \E t \in Turns : AddUserMessage(t)
  \/ \E t \in Turns : AddEmergencyMessage(t)
  \/ \E t \in Turns : CreateHandoff(t)
  \/ \E t \in Turns : AddRefusalMessage(t)

SpecStaff == InitStaff /\ [][NextStaff]_vars

\* the patient turns that end in a short-circuit, with a store whose INSERT
\* into ai_handoff_requests can fail
NextFaults ==
  \/ CreateSession
  \/ \E t \in Turns, k \in Kinds, m \in Messages : StartTurn(t, k, m)
  \/ \E t \in Turns : GetConversation(t)
  \/ \E t \in Turns, age \in Ages : CheckLimits(t, age)
  \/ \E t \in Turns : AddUserMessage(t)
  \/ \E t \in Turns : AddEmergencyMessage(t)
  \/ \E t \in Turns : CreateHandoff(t)
  \/ \E t \in Turns : CreateHandoffFails(t)
  \/ \E t \in Turns : AddRefusalMessage(t)
  \/ \E t \in Turns : ClientClose(t)

SpecFaults == Init /\ [][NextFaults]_vars

\* two sendMessageStream requests of one session, with cancelGeneration and the
\* clients' disconnections
OverlapMessages == {<<"hello">>}

InitOverlap ==
  /\ safetyMode \in BOOLEAN
  /\ conv = [status |-> "ai-active", staff_id |-> None, closed_at |-> 0]
  /\ messages = <<Msg("assistant", Greeting, {"isGreeting"})>>
  /\ handoffs = <<>>
  /\ activeSessions = None
  /\ turn = [t \in {"t1", "t2"} |-> IdleTurn]
  /\ staffIds = {"staffA"}
  /\ reply = NoReply

NextOverlap ==
  \/ CancelGeneration
  \/ \E t \in Turns, m \in OverlapMessages : StartTurn(t, "stream", m)
  \/ \E t \in Turns : GetConversation(t)
  \/ \E t \in Turns, age \in Ages : CheckLimits(t, age)
  \/ \E t \in Turns : AddUserMessage(t)
  \/ \E t \in Turns : GetContextMessages(t)
  \/ \E t \in Turns : PostResponse(t)
  \/ \E t \in Turns : StreamFails(t)
  \/ \E t \in Turns, n \in AbortErrorNames : StreamAborted(t, n)
  \/ \E t \in Turns, f \in Fragments : StreamData(t, f)
  \/ \E t \in Turns : StreamStop(t)
  \/ \E t \in Turns : StreamEnd(t)
  \/ \E t \in Turns : AddAssistantMessage(t)
  \/ \E t \in Turns : ClientClose(t)

SpecOverlap == InitOverlap /\ [][NextOverlap]_vars

\* one patient turn, await by await, with cancelGeneration, the client's
\* disconnection and a store whose INSERT of the assistant message can fail
NextStore ==
  \/ CreateSession
  \/ CancelGeneration
  \/ \E t \in Turns, k \in Kinds, m \in Messages : StartTurn(t, k, m)
  \/ \E t \in Turns : GetConversation(t)
  \/ \E t \in Turns, age \in Ages : CheckLimits(t, age)
  \/ \E t \in Turns : AddUserMessage(t)
  \/ \E t \in Turns : AddEmergencyMessage(t)
  \/ \E t \in Turns : CreateHandoff(t)
  \/ \E t \in Turns : AddRefusalMessage(t)
  \/ \E t \in Turns : GetContextMessages(t)
  \/ \E t \in Turns, frs \in FragSeqs : GenerateResponse(t, frs)
  \/ \E t \in Turns : GenerateResponseFails(t)
  \/ \E t \in Turns : PostResponse(t)
  \/ \E t \in Turns : StreamFails(t)
  \/ \E t \in Turns, n \in AbortErrorNames : StreamAborted(t, n)
  \/ \E t \in Turns, f \in Fragments : StreamData(t, f)
  \/ \E t \in Turns : StreamStop(t)
  \/ \E t \in Turns : StreamEnd(t)
  \/ \E t \in Turns : AddAssistantMessage(t)
  \/ \E t \in Turns : AddAssistantMessageFails(t)
  \/ \E t \in Turns : ClientClose(t)

SpecStore == Init /\ [][NextStore]_vars

\* one patient turn, await by await, with cancelGeneration, the client's
\* disconnection and the heartbeat timer
NextHeartbeat ==
  \/ CreateSession
  \/ CancelGeneration
  \/ \E t \in Turns, k \in Kinds, m \in Messages : StartTurn(t, k, m)
  \/ \E t \in Turns : GetConversation(t)
  \/ \E t \in Turns, age \in Ages : CheckLimits(t, age)
  \/ \E t \in Turns : AddUserMessage(t)
  \/ \E t \in Turns : AddEmergencyMessage(t)
  \/ \E t \in Turns : CreateHandoff(t)
  \/ \E t \in Turns : AddRefusalMessage(t)
  \/ \E t \in Turns : GetContextMessages(t)
  \/ \E t \in Turns, frs \in FragSeqs : GenerateResponse(t, frs)
  \/ \E t \in Turns : GenerateResponseFails(t)
  \/ \E t \in Turns : PostResponse(t)
  \/ \E t \in Turns : StreamFails(t)
  \/ \E t \in Turns, n \in AbortErrorNames : StreamAborted(t, n)
  \/ \E t \in Turns, f \in Fragments : StreamData(t, f)
  \/ \E t \in Turns : StreamStop(t)
  \/ \E t \in Turns : StreamEnd(t)
  \/ \E t \in Turns : AddAssistantMessage(t)
  \/ \E t \in Turns : ClientClose(t)
  \/ \E t \in Turns : Heartbeat(t)

SpecHeartbeat == Init /\ [][NextHeartbeat]_vars

\* the texts detectEmergency is given: keywords in either case, other words
TextAtoms == {"chest pain", "CHEST PAIN", "stroke", "high fever", "High Fever", "hello", " "}

Texts == UNION {[1..n -> TextAtoms] : n \in 0..MaxText}

\* a call of detectEmergency(message) and what it returns
DetectEmergency(message) ==
  /\ reply' = [op |-> "detectEmergency", arg |-> message, rows |-> <<detectEmergency(message)>>]
  /\ UNCHANGED <<safetyMode, staffIds, conv, messages, handoffs, activeSessions, turn>>

NextClassify == \E message \in Texts : DetectEmergency(message)

SpecClassify == Init /\ [][NextClassify]_vars

\* the messages a conversation can hold after its greeting
History ==
  { Msg("user", <<"hello">>, {}),
    Msg("assistant", Deflection, {"safetyOverride"}),
    Msg("system", <<"STAFF_JOINED">>, {"takeover", "staffA"}),
    Msg("staff", <<"STAFF_TEXT">>, {"staffA"}) }

\* getContextMessages on a conversation with its greeting and any history
InitContext ==
  /\ safetyMode \in BOOLEAN
  /\ conv = [status |-> "ai-active", staff_id |-> None, closed_at |-> 0]
  /\ \E n \in 0..MaxHistory : \E h \in [1..n -> History] :
       messages = <<Msg("assistant", Greeting, {"isGreeting"})>> \o h
  /\ handoffs = <<>>
  /\ activeSessions = None
  /\ turn = [t \in {"t1"} |-> IdleTurn]
  /\ staffIds = {"staffA"}
  /\ reply = NoReply

NextContext == \E n \in 0..MaxContext : ContextQuery(n)

SpecContext == InitContext /\ [][NextContext]_vars

Priorities == {"emergency", "high", "normal", "low"}

\* the requests ai_handoff_requests can hold: pending, or assigned by a takeover
Requests ==
  {createHandoffRequest(p, p) : p \in Priorities}
    \cup {[createHandoffRequest(p, p) EXCEPT !.status = "assigned", !.assigned_staff_id = "staffA"] :
            p \in Priorities}

\* getPendingHandoffs on any content of ai_handoff_requests
InitQueue ==
  /\ safetyMode \in BOOLEAN
  /\ conv = [status |-> "ai-active", staff_id |-> None, closed_at |-> 0]
  /\ messages = <<Msg("assistant", Greeting, {"isGreeting"})>>
  /\ \E n \in 0..MaxQueue : handoffs \in [1..n -> Requests]
  /\ activeSessions = None
  /\ turn = [t \in {"t1"} |-> IdleTurn]
  /\ staffIds = {"staffA"}
  /\ reply = NoReply

NextQueue == GetPendingHandoffs

SpecQueue == InitQueue /\ [][NextQueue]_vars

\* ------------------------------------------------------------------ claims
Rejections == {"NOT_FOUND", "FORBIDDEN", "RATE_LIMITED"}

\* the turn passed the existence, status and limit checks
Accepted(tr) ==
  tr.pc \notin {"idle", "getConv", "checkLimits"} /\ tr.outcome \notin Rejections

Range(f) == {f[i] : i \in DOMAIN f}

\* the assistant messages of the store that are not the greeting
Replies == SelectSeq(messages, LAMBDA m : m.role = "assistant" /\ "isGreeting" \notin m.metadata)

\* the text contains an emergency keyword / a prohibited topic, whatever its case
HasEmergencyKeyword(m) == \E i \in DOMAIN m : Lower(m[i]) \in {"chest pain", "stroke"}
HasProhibitedTopic(m) == \E i \in DOMAIN m : Lower(m[i]) \in {"abortion", "euthanasia"}

\* C1: in safety mode an accepted turn (send or stream) whose message holds an
\* emergency keyword never calls the Inference Client, and once it has ended it
\* has persisted exactly one assistant message, the canned emergency text, and
\* inserted exactly one handoff request with priority emergency, status pending.
C1_EmergencyShortCircuit ==
  \A t \in Turns :
    LET tr == turn[t]
    IN (safetyMode /\ Accepted(tr) /\ HasEmergencyKeyword(tr.msg)) =>
         /\ tr.engineCalls = 0
         /\ tr.pc \in {"addUser", "addEmergency", "handoff", "ended"}
         /\ tr.pc = "ended" =>
              /\ tr.saved = << emergencyResponse.message >>
              /\ tr.handoffsMade = << [reason |-> "emergency", priority |-> "emergency",
                                       status |-> "pending", assigned_staff_id |-> None] >>
              /\ Len(Replies) = 1
              /\ Replies[1].content = emergencyResponse.message
              /\ Len(handoffs) = 1
              /\ handoffs[1].priority = "emergency"

C1_Witness ==
  \E t \in Turns :
    /\ safetyMode
    /\ turn[t].kind = "stream"
    /\ turn[t].msg = <<"i have", " ", "CHEST PAIN">>
    /\ turn[t].pc = "ended"
    /\ turn[t].outcome = "emergency"
    /\ Len(handoffs) = 1

\* C2: the Inference Client is never called for, and no generated assistant
\* message is persisted into, a conversation whose status is staff-taken, also
\* when the takeover completes at a suspension point of the turn.
C2_NoEngineForStaffTaken ==
  [][ \A t \in Turns :
        /\ turn'[t].engineCalls > turn[t].engineCalls => conv.status # "staff-taken"
        /\ (turn'[t].saved # turn[t].saved /\ turn'[t].outcome = "generated")
             => conv.status # "staff-taken" ]_vars

\* the generated response of the turn fails validateResponse
Invalid(tr) == ~validateResponse(CleanContent(tr.raw)).isValid

DeflectionForms == {Deflection, urgentResponse.message \o <<"\n\n">> \o Deflection}

\* no word of the engine's text occurs in the text
NoRawText(text, raw) == \A i \in DOMAIN raw : IsWord(raw[i]) => raw[i] \notin Range(text)

PersistedDeflection(tr) ==
  /\ Len(tr.saved) = 1
  /\ tr.saved[1] \in DeflectionForms
  /\ NoRawText(tr.saved[1], tr.raw)
  /\ \E i \in DOMAIN messages :
       /\ messages[i].role = "assistant"
       /\ messages[i].content = tr.saved[1]
       /\ "safetyOverride" \in messages[i].metadata

\* C3 as amended: in safety mode, a turn (send or stream) whose generated
\* response holds a restricted-action phrase or a diagnostic pattern persists
\* the canned deflection, optionally preceded by the urgent advisory, with no
\* word of the model's text, in a message marked safetyOverride.
C3_DeflectionPersisted ==
  \A t \in Turns :
    (safetyMode /\ turn[t].outcome = "generated" /\ Invalid(turn[t]))
      => PersistedDeflection(turn[t])

C3_Witness ==
  \E t \in Turns :
    /\ safetyMode
    /\ turn[t].kind = "stream"
    /\ turn[t].outcome = "generated"
    /\ turn[t].raw = <<"You have", " ", "a", " ", "cold", "<|end|>">>
    /\ turn[t].saved = <<Deflection>>

\* C3 as stated: every turn, in either mode, whose generated response holds a
\* restricted-action phrase or a diagnostic pattern persists the deflection.
C3_AnyModeDeflectionPersisted ==
  \A t \in Turns :
    (turn[t].outcome = "generated" /\ Invalid(turn[t])) => PersistedDeflection(turn[t])

\* C4: in a safety-mode turn whose generated response fails validation no text
\* of the model reaches the caller: not in the response or done payload and not
\* in any token event of the turn.
C4_NoRawTextDelivered ==
  \A t \in Turns :
    LET tr == turn[t]
    IN (safetyMode /\ (tr.pc = "addAsst" \/ tr.outcome = "generated") /\ Invalid(tr)) =>
         /\ NoRawText(tr.response.message, tr.raw)
         /\ \A i \in DOMAIN tr.events :
              /\ NoRawText(tr.events[i].token, tr.raw)
              /\ NoRawText(tr.events[i].content, tr.raw)

\* the events written in a step hold no event of these types
NoNew(types, old, new) ==
  \A i \in DOMAIN new : i > Len(old) => new[i].type \notin types

\* C5: once cancelGeneration has been processed for a running streaming turn,
\* no token or done event is written for the turn and the turn persists no
\* assistant message, wherever the turn is suspended when the cancel arrives.
C5_NothingAfterCancel ==
  [][ \A t \in Turns :
        (turn[t].kind = "stream" /\ turn[t].hCancelled /\ turn[t].pc \notin {"idle", "ended"})
          => /\ turn'[t].saved = turn[t].saved
             /\ NoNew({"token", "done"}, turn[t].events, turn'[t].events) ]_vars

\* C6: in safety mode an accepted turn whose message holds a prohibited topic
\* and no emergency keyword never calls the Inference Client, inserts no
\* handoff request, and once it has ended it has persisted the canned refusal
\* as its single assistant message.
C6_ProhibitedShortCircuit ==
  \A t \in Turns :
    LET tr == turn[t]
    IN (safetyMode /\ Accepted(tr) /\ HasProhibitedTopic(tr.msg)
          /\ ~HasEmergencyKeyword(tr.msg)) =>
         /\ tr.engineCalls = 0
         /\ tr.handoffsMade = <<>>
         /\ handoffs = <<>>
         /\ tr.pc \in {"addUser", "addRefusal", "ended"}
         /\ tr.pc = "ended" =>
              /\ tr.saved = << refusalResponse.message >>
              /\ Len(Replies) = 1
              /\ Replies[1].content = refusalResponse.message

C6_Witness ==
  \E t \in Turns :
    /\ safetyMode
    /\ turn[t].kind = "send"
    /\ turn[t].msg = <<"high fever", " ", "abortion">>
    /\ turn[t].pc = "ended"
    /\ turn[t].response = Json(200, refusalResponse.message, {})

\* C7: a patient turn on a conversation whose status is closed is rejected: it
\* persists no message, creates no handoff and never calls the Inference Client.
C7_ClosedRejected ==
  \A t \in Turns :
    turn[t].conversation.status = "closed" =>
      /\ turn[t].pc = "ended"
      /\ turn[t].outcome \in Rejections
      /\ turn[t].saved = <<>>
      /\ turn[t].handoffsMade = <<>>
      /\ turn[t].engineCalls = 0

\* what a Forbidden rejection writes: 403 (send) or at most the error event
ForbiddenReply(tr) ==
  /\ tr.pc = "ended"
  /\ tr.outcome = "FORBIDDEN"
  /\ tr.kind = "send" => tr.response = Json(403, <<>>, {"FORBIDDEN"})
  /\ tr.kind = "stream" =>
       tr.events \in {<<>>, << Ev("error", <<>>, <<>>, "FORBIDDEN") >>}

\* C8: a takeover that succeeds leaves the status staff-taken, with or without
\* a pending handoff; a patient turn (send or stream) whose status check then
\* reads staff-taken is rejected as Forbidden in that step, and neither that
\* step nor the rejected turn afterwards changes the messages or the handoffs.
C8_TakeoverThenForbidden ==
  [][ /\ (Len(messages') = Len(messages) + 1
            /\ messages'[Len(messages')].content = <<"STAFF_JOINED">>)
           => (conv'.status = "staff-taken" /\ conv'.staff_id \in staffIds)
      /\ \A t \in Turns :
           /\ (turn[t].pc = "getConv" /\ conv.status = "staff-taken"
                 /\ turn'[t].pc # "getConv")
                => /\ ForbiddenReply(turn'[t])
                   /\ messages' = messages
                   /\ handoffs' = handoffs
           /\ turn[t].outcome = "FORBIDDEN"
                => /\ ForbiddenReply(turn'[t])
                   /\ turn'[t].saved = <<>>
                   /\ turn'[t].handoffsMade = <<>>
                   /\ turn'[t].engineCalls = 0 ]_vars

C8_Witness ==
  \E t \in Turns :
    /\ conv.status = "staff-taken"
    /\ handoffs = <<>>
    /\ turn[t].kind = "send"
    /\ turn[t].response = Json(403, <<>>, {"FORBIDDEN"})
    /\ Len(messages) = 2

\* start at most once and before every token and done; done or error only as
\* the last event
WellFormed(evs) ==
  /\ \A i, j \in DOMAIN evs : (evs[i].type = "start" /\ evs[j].type = "start") => i = j
  /\ \A i \in DOMAIN evs :
       evs[i].type \in {"token", "done"} => \E j \in 1..(i - 1) : evs[j].type = "start"
  /\ \A i \in DOMAIN evs : evs[i].type \in {"done", "error"} => i = Len(evs)

\* C9: the events of a streaming turn are one start, then tokens, then exactly
\* one done on success, an error on failure, and no terminal event once the
\* turn is cancelled (by cancelGeneration or by the client's disconnection)
\* while the engine call is pending.
C9_EventSequence ==
  /\ [](\A t \in Turns : turn[t].kind = "stream" => WellFormed(turn[t].events))
  /\ [](\A t \in Turns :
          (turn[t].kind = "stream" /\ ~turn[t].isCancelled
             /\ turn[t].outcome \in {"generated", "emergency", "refusal"})
            => (turn[t].events # <<>>
                  /\ turn[t].events[Len(turn[t].events)].type = "done"))
  /\ [][ \A t \in Turns :
           (turn[t].kind = "stream" /\ (turn[t].hCancelled \/ turn[t].isCancelled)
              /\ turn[t].pc \in {"post", "streaming"})
             => NoNew({"done", "error"}, turn[t].events, turn'[t].events) ]_vars

\* the done event of the turn, if it was written, carries this message
DoneCarries(tr, text) ==
  \A i \in DOMAIN tr.events : tr.events[i].type = "done" => tr.events[i].content = text

\* C10: for the same message and engine output, under every classification
\* (normal, urgent) and validation outcome, the streaming turn persists and
\* carries in its done event the message sendMessage returns and persists.
C10_StreamEqualsSend ==
  \A t \in Turns :
    LET tr == turn[t]
        content == CleanContent(tr.raw)
        expected == IF safetyMode THEN sendFinal(tr.msg, content).finalResponse ELSE content
    IN (tr.kind = "stream" /\ tr.outcome = "generated") =>
         /\ tr.saved = <<expected>>
         /\ DoneCarries(tr, expected)

\* C11: a streaming turn whose engine call is pending when cancelGeneration
\* is processed or the client disconnects ends with the Cancelled outcome and
\* writes no error event, whatever the aborted call rejects with.
C11_AbortEndsCancelled ==
  [][ \A t \in Turns :
        (turn[t].kind = "stream" /\ (turn[t].hCancelled \/ turn[t].isCancelled)
           /\ turn[t].pc \in {"post", "streaming"} /\ turn'[t].pc = "ended")
          => /\ turn'[t].outcome = "cancelled"
             /\ NoNew({"error"}, turn[t].events, turn'[t].events) ]_vars

\* C12: once a streaming turn has concluded, by any outcome, and no other
\* streaming turn of the session is in progress, activeSessions holds no entry
\* for the session.
C12_RegistryEmptied ==
  (\A t \in Turns : turn[t].kind = "stream" => turn[t].pc \in {"idle", "ended"})
    => activeSessions = None

\* the handler left the store as it was
StoreUnchanged(r) == r.conv = conv /\ r.handoffs = handoffs /\ r.messages = messages

\* the step appended this system or staff message written for staff member s
Appended(content, s) ==
  /\ Len(messages') = Len(messages) + 1
  /\ messages'[Len(messages')].content = content
  /\ s \in messages'[Len(messages')].metadata

\* C13: a takeover of a conversation that is already staff-taken, by the same
\* or by another staff member, is rejected and leaves status, staff_id,
\* handoff requests and messages unchanged.
C13_TakeoverNeedsNoOwner ==
  \A s \in staffIds :
    conv.status = "staff-taken" =>
      (takeoverChat(s).code # 200 /\ StoreUnchanged(takeoverChat(s)))

\* C14: releaseChat by a caller who is not the conversation's staff_id answers
\* 403 and leaves conversation, handoffs and messages unchanged; by the owner
\* it answers 200 and sets status ai-active and staff_id null; and every step
\* that writes the release message is a release by the owner.
C14_ReleaseByOwnerOnly ==
  /\ [](\A s \in staffIds :
          conv # NoConv =>
            IF conv.staff_id # s
            THEN releaseChat(s).code = 403 /\ StoreUnchanged(releaseChat(s))
            ELSE /\ releaseChat(s).code = 200
                 /\ releaseChat(s).conv.status = "ai-active"
                 /\ releaseChat(s).conv.staff_id = None)
  /\ [][ \A s \in staffIds :
           Appended(<<"RETURNED_TO_AI">>, s)
             => (conv.staff_id = s /\ conv'.status = "ai-active" /\ conv'.staff_id = None) ]_vars

C14_Witness ==
  /\ staffIds = {"staffA", "staffB"}
  /\ Len(messages) = 3
  /\ messages[2].content = <<"STAFF_JOINED">> /\ "staffB" \in messages[2].metadata
  /\ messages[3].content = <<"RETURNED_TO_AI">> /\ "staffB" \in messages[3].metadata
  /\ conv.status = "ai-active" /\ conv.staff_id = None

\* C15: sendStaffMessage persists a staff message only for the conversation's
\* staff_id while the status is staff-taken; for another staff member, an
\* ai-active or closed conversation it answers 403, for an unknown session 404,
\* and persists nothing.
C15_StaffMessageByOwnerOnly ==
  /\ [](\A s \in staffIds :
          IF conv # NoConv /\ conv.staff_id = s /\ conv.status = "staff-taken"
          THEN /\ sendStaffMessage(s).code = 200
               /\ sendStaffMessage(s).messages = Append(messages, Msg("staff", <<"STAFF_TEXT">>, {s}))
          ELSE /\ sendStaffMessage(s).code = (IF conv = NoConv THEN 404 ELSE 403)
               /\ StoreUnchanged(sendStaffMessage(s)))
  /\ [][ \A s \in staffIds :
           (Appended(<<"STAFF_TEXT">>, s) /\ messages'[Len(messages')].role = "staff")
             => (conv.staff_id = s /\ conv.status = "staff-taken"
                   /\ conv' = conv /\ handoffs' = handoffs) ]_vars

C15_Witness ==
  /\ staffIds = {"staffA", "staffB"}
  /\ conv.status = "closed" /\ conv.staff_id = "staffA"
  /\ Len(messages) = 3
  /\ messages[3] = Msg("staff", <<"STAFF_TEXT">>, {"staffA"})

\* C16: in every reachable state staff_id is non-null if and only if the
\* status is staff-taken.
C16_StaffIdIffStaffTaken ==
  conv # NoConv => (conv.staff_id # None <=> conv.status = "staff-taken")

\* C17: closeSession on a conversation that is already closed leaves closed_at
\* at the timestamp of the first close, and the status closed.
C17_CloseKeepsClosedAt ==
  [][ (conv.status = "closed" /\ conv'.status = "closed")
        => conv'.closed_at = conv.closed_at ]_vars

\* no streaming turn of the session is in progress
NoGeneration == \A t \in Turns : turn[t].kind = "stream" => turn[t].pc \in {"idle", "ended"}

\* C18: cancelGeneration answers success; a second call in succession answers
\* success and leaves the state of the first; and on a session with no
\* generation in progress a call changes nothing: not the registry and its
\* handles, not the conversation, the messages or the handoffs.
C18_CancelIdempotent ==
  /\ [](/\ cancelGeneration(turn).code = 200
        /\ cancelGeneration(cancelGeneration(turn).turn) = cancelGeneration(turn))
  /\ [](NoGeneration => cancelGeneration(turn).turn = turn)
  /\ [][ NoGeneration =>
           \A t \in Turns : /\ turn'[t].hCancelled = turn[t].hCancelled
                             /\ turn'[t].aborted = turn[t].aborted ]_vars

\* the messages of the conversation that are not its greeting
NonGreeting == SelectSeq(messages, LAMBDA m : m.content # Greeting)

\* C19: getContextMessages(sessionId, N) returns the min(N, k) most recent of
\* the conversation's k non-greeting messages, oldest first: never the
\* greeting and never more than N entries.
C19_ContextWindow ==
  reply.op = "getContextMessages" =>
    LET k == Len(NonGreeting)
        n == IF reply.arg < k THEN reply.arg ELSE k
    IN /\ Len(reply.rows) = n
       /\ \A i \in 1..n :
            /\ reply.rows[i].role = NonGreeting[k - n + i].role
            /\ reply.rows[i].content = NonGreeting[k - n + i].content
       /\ \A i \in DOMAIN reply.rows : reply.rows[i].content # Greeting

C19_Witness ==
  /\ Len(messages) = 4
  /\ messages[3].role = "user"
  /\ messages[4].role = "staff"
  /\ reply = [op |-> "getContextMessages", arg |-> 2,
              rows |-> << [role |-> "user", content |-> <<"hello">>],
                          [role |-> "staff", content |-> <<"STAFF_TEXT">>] >>]

\* the place of a priority in the order emergency > high > normal > low
Urgency(p) == CHOOSE n \in 1..4 : <<"emergency", "high", "normal", "low">>[n] = p

\* C20: getPendingHandoffs returns exactly the pending requests, each once,
\* ordered by priority emergency > high > normal > low and, within a priority,
\* by creation time ascending; requests created as [normal, emergency, low,
\* emergency] come back as [emergency(1st), emergency(2nd), normal, low].
C20_PendingQueueOrder ==
  reply.op = "getPendingHandoffs" =>
    LET q == reply.rows
    IN /\ Range(q) = {i \in DOMAIN handoffs : handoffs[i].status = "pending"}
       /\ \A i, j \in DOMAIN q : i < j =>
            /\ q[i] # q[j]
            /\ Urgency(handoffs[q[i]].priority) <= Urgency(handoffs[q[j]].priority)
            /\ Urgency(handoffs[q[i]].priority) = Urgency(handoffs[q[j]].priority)
                 => q[i] < q[j]
       /\ ([i \in DOMAIN handoffs |-> handoffs[i].priority]
             = <<"normal", "emergency", "low", "emergency">>
           /\ \A i \in DOMAIN handoffs : handoffs[i].status = "pending")
            => q = <<2, 4, 1, 3>>

C20_Witness ==
  /\ [i \in DOMAIN handoffs |-> handoffs[i].priority]
       = <<"normal", "emergency", "low", "emergency">>
  /\ \A i \in DOMAIN handoffs : handoffs[i].status = "pending"
  /\ reply = [op |-> "getPendingHandoffs", arg |-> 0, rows |-> <<2, 4, 1, 3>>]

\* what the caller of an ended turn holds is this message with success
Returned(tr, text) ==
  /\ tr.kind = "send" => tr.response = Json(200, text, {})
  /\ (tr.kind = "stream" /\ ~tr.isCancelled) =>
       tr.events = << Ev("start", <<>>, <<>>, None), Ev("token", text, text, None),
                      Ev("done", <<>>, text, None) >>

\* the store after createSession and the single turn tr ended by the emergency
\* short-circuit, as getHistory and the handoff table show it
EmergencyScenario(tr) ==
  /\ Returned(tr, emergencyResponse.message)
  /\ getHistoryResponse.code = 200
  /\ [i \in DOMAIN getHistoryResponse.messages |->
        <<getHistoryResponse.messages[i].role, getHistoryResponse.messages[i].content>>]
       = << <<"assistant", Greeting>>, <<"user", tr.msg>>,
            <<"assistant", emergencyResponse.message>> >>
  /\ "isGreeting" \in getHistoryResponse.messages[1].metadata
  /\ Cardinality({i \in DOMAIN handoffs : handoffs[i].status = "pending"}) = 1
  /\ \A i \in DOMAIN handoffs : handoffs[i].priority = "emergency"

\* C21 as amended: in safety mode, after createSession and one accepted patient
\* turn whose message holds an emergency keyword, with no staff operation in
\* between, the caller holds the emergency message, getHistory returns the
\* greeting, the user message and the emergency message in that order, and one
\* pending handoff of priority emergency exists.
C21_EmergencyScenario ==
  \A t \in Turns :
    (safetyMode /\ turn[t].pc = "ended" /\ Accepted(turn[t])
       /\ HasEmergencyKeyword(turn[t].msg) /\ StaffOpsDone = 0)
      => EmergencyScenario(turn[t])

C21_Witness ==
  \E t \in Turns :
    /\ safetyMode
    /\ turn[t].kind = "send"
    /\ turn[t].msg = <<"i have", " ", "CHEST PAIN">>
    /\ turn[t].response = Json(200, emergencyResponse.message, {})
    /\ Len(getHistoryResponse.messages) = 3
    /\ Len(handoffs) = 1

\* C21 as stated: the same in either mode.
C21_AnyModeEmergencyScenario ==
  \A t \in Turns :
    (turn[t].pc = "ended" /\ Accepted(turn[t])
       /\ HasEmergencyKeyword(turn[t].msg) /\ StaffOpsDone = 0)
      => EmergencyScenario(turn[t])

\* the turn's call of the Inference Client failed: the handler's catch ran on
\* an error that is no cancellation, or the engine's result was empty
EngineFailed(tr) ==
  /\ tr.engineCalls > 0
  /\ ~tr.aborted /\ ~tr.isCancelled
  /\ \/ tr.outcome = "error"
     \/ (tr.pc \in {"addAsst", "fastAddAsst", "ended"} /\ CleanContent(tr.raw) = <<>>)

\* the caller of the ended turn holds an error code
ErrorDelivered(tr) ==
  /\ tr.kind = "send" => tr.response.code = 500
  /\ tr.kind = "stream" =>
       (tr.events # <<>> /\ tr.events[Len(tr.events)].type = "error")

\* C22: when the Inference Client call of a turn fails (engine unreachable,
\* stream error, empty result) after the user message was persisted, the user
\* message stays in the store, the turn persists no assistant message, and the
\* ended turn has given its caller an error code.
C22_EngineFailureKeepsUserMessage ==
  \A t \in Turns :
    EngineFailed(turn[t]) =>
      /\ \E i \in DOMAIN messages : messages[i] = Msg("user", turn[t].msg, {})
      /\ turn[t].saved = <<>>
      /\ turn[t].pc = "ended" => ErrorDelivered(turn[t])

\* C23: on a session token no conversation has, getHistory, closeSession,
\* takeoverChat, releaseChat, sendStaffMessage and getTranscript answer 404 and
\* leave the store as it is, and a patient turn (send or stream) that reads no
\* conversation ends as NOT_FOUND in that step without a change of the store.
C23_UnknownSessionNotFound ==
  /\ [](conv = NoConv =>
          /\ getHistoryResponse.code = 404
          /\ \A now \in 1..MaxStamp :
               closeSession(now).code = 404 /\ closeSession(now).conv = conv
          /\ \A s \in staffIds :
               /\ takeoverChat(s).code = 404 /\ StoreUnchanged(takeoverChat(s))
               /\ releaseChat(s).code = 404 /\ StoreUnchanged(releaseChat(s))
               /\ sendStaffMessage(s).code = 404 /\ StoreUnchanged(sendStaffMessage(s))
               /\ getTranscript(s).code = 404)
  /\ [][ \A t \in Turns :
           (turn[t].pc = "getConv" /\ conv = NoConv /\ turn'[t].pc # "getConv")
             => /\ turn'[t].pc = "ended"
                /\ turn'[t].outcome = "NOT_FOUND"
                /\ turn'[t].kind = "send" => turn'[t].response.code = 404
                /\ <<conv', messages', handoffs'>> = <<conv, messages, handoffs>> ]_vars

\* C24: an ended safety-mode turn that persisted the canned emergency or
\* refusal message and was not cancelled has returned that message to its
\* caller with success, never an error.
C24_ShortCircuitSucceeds ==
  \A t \in Turns :
    LET tr == turn[t]
    IN (safetyMode /\ tr.pc = "ended" /\ ~tr.isCancelled /\ tr.saved # <<>>
          /\ tr.saved[1] \in {emergencyResponse.message, refusalResponse.message})
         => Returned(tr, tr.saved[1])

\* C25: checkLimits on a conversation reports exceeded exactly when its count
\* of messages is at least maxMessagesPerSession or its age in hours is at
\* least maxSessionDurationHours; a turn is never let past the check at the
\* cap, and a turn rejected as RATE_LIMITED is answered 429 in the step of the
\* check, which leaves messages and handoffs alone, and never persists a user
\* or assistant message, inserts a handoff or calls the Inference Client.
C25_LimitsEnforced ==
  /\ [](conv # NoConv =>
          \A h \in Ages :
            checkLimits(h).exceeded
              <=> (Len(messages) >= maxMessagesPerSession \/ h >= maxSessionDurationHours))
  /\ [](\A t \in Turns :
          turn[t].outcome = "RATE_LIMITED" =>
            /\ turn[t].pc = "ended"
            /\ turn[t].saved = <<>>
            /\ turn[t].handoffsMade = <<>>
            /\ turn[t].engineCalls = 0
            /\ turn[t].kind = "send" => turn[t].response = Json(429, <<>>, {"RATE_LIMITED"}))
  /\ [][ \A t \in Turns :
           /\ (turn[t].pc = "checkLimits" /\ turn'[t].pc # "checkLimits")
                => /\ <<messages', handoffs'>> = <<messages, handoffs>>
                   /\ Len(messages) >= maxMessagesPerSession
                        => turn'[t].outcome = "RATE_LIMITED"
                   /\ turn'[t].outcome # "RATE_LIMITED" => turn'[t].pc = "addUser"
           /\ (turn[t].pc # "addUser" /\ turn'[t].pc = "addUser")
                => turn[t].pc = "checkLimits"
           /\ (messages' # messages /\ messages'[Len(messages')].role = "user")
                => \E u \in Turns : turn[u].pc = "addUser" /\ turn[u].outcome = None ]_vars

C25_Witness ==
  \E t \in Turns :
    /\ turn[t].outcome = "RATE_LIMITED"
    /\ turn[t].kind = "stream"
    /\ Len(messages) = maxMessagesPerSession
    /\ \A i \in DOMAIN messages : messages[i].role # "user"

\* the ended turn took the emergency outcome and not the refusal
EmergencyOutcome(tr) ==
  /\ tr.outcome = "emergency"
  /\ tr.saved = << emergencyResponse.message >>
  /\ Returned(tr, emergencyResponse.message)
  /\ tr.handoffsMade = << createHandoffRequest("emergency", "emergency") >>
  /\ \A i \in DOMAIN messages : messages[i].content # refusalResponse.message

\* C26 as amended: in safety mode an accepted turn (send or stream) whose
\* message holds both an emergency keyword and a prohibited topic ends with the
\* emergency outcome: it persists and returns the emergency message, never the
\* refusal, and inserts an emergency handoff.
C26_EmergencyBeforeProhibited ==
  \A t \in Turns :
    (safetyMode /\ turn[t].pc = "ended" /\ Accepted(turn[t])
       /\ HasEmergencyKeyword(turn[t].msg) /\ HasProhibitedTopic(turn[t].msg))
      => EmergencyOutcome(turn[t])

C26_Witness ==
  \E t \in Turns :
    /\ safetyMode
    /\ turn[t].kind = "stream"
    /\ turn[t].msg = <<"abortion", " ", "chest pain">>
    /\ turn[t].outcome = "emergency"
    /\ Len(turn[t].events) = 3
    /\ Len(handoffs) = 1

\* C26 as stated: the same in either mode.
C26_AnyModeEmergencyBeforeProhibited ==
  \A t \in Turns :
    (turn[t].pc = "ended" /\ Accepted(turn[t])
       /\ HasEmergencyKeyword(turn[t].msg) /\ HasProhibitedTopic(turn[t].msg))
      => EmergencyOutcome(turn[t])

\* the streaming turn is in progress, before or during its engine call
BeforeOrDuringEngine(tr) ==
  /\ tr.kind = "stream"
  /\ tr.pc \in {"getConv", "checkLimits", "addUser", "getCtx", "fastCtx", "post", "streaming"}

\* C27: while a streaming turn is in progress, before or during its engine
\* call, cancelGeneration aborts the signal of that turn, and so does the
\* disconnection of the turn's client; once the signal is aborted the engine
\* call delivers nothing more to the turn.
C27_CancelFiresSignal ==
  /\ [](\A t \in Turns :
          BeforeOrDuringEngine(turn[t]) => cancelGeneration(turn).turn[t].aborted)
  /\ [][ \A t \in Turns :
           /\ (BeforeOrDuringEngine(turn[t]) /\ ~turn[t].closed /\ turn'[t].closed)
                => turn'[t].aborted
           /\ (BeforeOrDuringEngine(turn[t]) /\ turn[t].aborted)
                => /\ turn'[t].raw = turn[t].raw
                   /\ turn'[t].pc = "streaming" => turn[t].pc = "streaming" ]_vars

\* the turn's final response is what validateResponse allows for the engine's
\* result: the result itself if valid, else the deflection, each optionally
\* behind the urgent advisory
Validated(tr) ==
  LET content == CleanContent(tr.raw)
  IN IF validateResponse(content).isValid
     THEN /\ tr.finalResponse \in {content, urgentResponse.message \o <<"\n\n">> \o content}
          /\ "safetyOverride" \notin tr.metadata
     ELSE /\ tr.finalResponse \in DeflectionForms
          /\ "safetyOverride" \in tr.metadata

\* the final response the caller was given: the 200 body or the done payload
FinalDelivered(tr) ==
  (IF tr.response.code = 200 THEN {tr.response.message} ELSE {})
    \cup {tr.events[i].content : i \in {j \in DOMAIN tr.events : tr.events[j].type = "done"}}

\* C28: in safety mode a turn calls the Inference Client at most once, only
\* for a message classified neither emergency nor prohibited, in the step that
\* fetched the context, which follows the step that persisted the user
\* message; the assistant message is persisted only after the call resolved
\* and validateResponse chose the final response, and a final response (200
\* body or done payload) is delivered only with the persisted message.
C28_PipelineOrder ==
  /\ [](\A t \in Turns :
          LET tr == turn[t]
          IN (safetyMode /\ tr.engineCalls > 0) =>
               /\ tr.engineCalls = 1
               /\ \E i \in DOMAIN messages : messages[i] = Msg("user", tr.msg, {})
               /\ ~detectEmergency(tr.msg).isEmergency
               /\ ~detectProhibitedTopic(tr.msg).isProhibited
               /\ tr.pc = "addAsst" => Validated(tr)
               /\ tr.saved # <<>> => (tr.saved = <<tr.finalResponse>> /\ Validated(tr))
               /\ FinalDelivered(tr) \subseteq Range(tr.saved))
  /\ [][ \A t \in Turns :
           safetyMode =>
             /\ turn'[t].engineCalls > turn[t].engineCalls => turn[t].pc = "getCtx"
             /\ (turn'[t].pc = "getCtx" /\ turn[t].pc # "getCtx")
                  => /\ turn[t].pc = "addUser"
                     /\ messages' = Append(messages, Msg("user", turn[t].msg, {}))
             /\ (turn'[t].pc = "addAsst" /\ turn[t].pc # "addAsst")
                  => (turn[t].pc \in {"engine", "streaming"} /\ turn[t].engineCalls = 1)
             /\ (turn'[t].saved # turn[t].saved /\ turn[t].engineCalls > 0)
                  => /\ turn[t].pc = "addAsst"
                     /\ messages' = Append(messages,
                          Msg("assistant", turn[t].finalResponse, turn[t].metadata)) ]_vars

C28_Witness ==
  \E t \in Turns :
    /\ safetyMode
    /\ turn[t].kind = "send"
    /\ turn[t].msg = <<"high fever">>
    /\ turn[t].raw = <<"Prescribe">>
    /\ turn[t].outcome = "generated"
    /\ turn[t].response.code = 200
    /\ turn[t].response.message = urgentResponse.message \o <<"\n\n">> \o Deflection

\* C29: in safety mode a turn (send or stream) whose message is classified
\* urgent and that generated a response persists, and gives its caller as the
\* final response, the urgent advisory followed by the generated text if that
\* is valid and by the deflection if it is not.
C29_UrgentAdvisoryPrefixed ==
  \A t \in Turns :
    LET tr == turn[t]
        content == CleanContent(tr.raw)
        expected == urgentResponse.message \o <<"\n\n">>
                      \o (IF validateResponse(content).isValid THEN content ELSE Deflection)
    IN (safetyMode /\ tr.outcome = "generated" /\ detectEmergency(tr.msg).isUrgent) =>
         /\ tr.saved = <<expected>>
         /\ FinalDelivered(tr) \subseteq {expected}
         /\ \E i \in DOMAIN messages : messages[i].content = expected

\* the fragments of the token events among the first n events, concatenated
RECURSIVE TokensUpTo(_, _)
TokensUpTo(evs, n) ==
  IF n = 0 THEN <<>>
  ELSE TokensUpTo(evs, n - 1) \o (IF evs[n].type = "token" THEN evs[n].token ELSE <<>>)

\* C30: in a streaming turn the content of every token event is the
\* concatenation, in the order written, of the fragments of the token events up
\* to and including it, the urgent advisory token included.
C30_TokenCumulative ==
  \A t \in Turns :
    turn[t].kind = "stream" =>
      \A i \in DOMAIN turn[t].events :
        turn[t].events[i].type = "token" =>
          turn[t].events[i].content = TokensUpTo(turn[t].events, i)

C30_Witness ==
  \E t \in Turns :
    /\ turn[t].kind = "stream"
    /\ Len(turn[t].events) = 4
    /\ turn[t].events[2].token = urgentResponse.message \o <<"\n\n">>
    /\ turn[t].events[4].type = "token"
    /\ turn[t].events[4].content =
         urgentResponse.message \o <<"\n\n", "You have", " ", "Prescribe">>

HasUrgentKeyword(m) == \E i \in DOMAIN m : Lower(m[i]) \in {"high fever", "infection"}

\* the keywords of the list that the text holds, whatever its case
Held(m, keywords) ==
  {keywords[k] : k \in {j \in DOMAIN keywords : \E i \in DOMAIN m : <<Lower(m[i])>> = keywords[j]}}

\* C32: detectEmergency returns emergency exactly for a text that holds an
\* emergency keyword in any case, urgent exactly for a text that holds no
\* emergency keyword and an urgent keyword, and normal otherwise, wherever the
\* keywords stand in the text; the matched keywords are the keywords of the
\* returned tier that the text holds.
C32_Classification ==
  reply.op = "detectEmergency" =>
    LET m == reply.arg
        r == reply.rows[1]
    IN /\ (r.priority = "emergency") <=> HasEmergencyKeyword(m)
       /\ (r.priority = "urgent") <=> (~HasEmergencyKeyword(m) /\ HasUrgentKeyword(m))
       /\ (r.priority = "normal") <=> (~HasEmergencyKeyword(m) /\ ~HasUrgentKeyword(m))
       /\ r.isEmergency <=> (r.priority = "emergency")
       /\ r.isUrgent <=> (r.priority = "urgent")
       /\ Range(r.matchedKeywords) =
            (CASE r.priority = "emergency" -> Held(m, emergencyKeywords)
               [] r.priority = "urgent" -> Held(m, urgentKeywords)
               [] OTHER -> {})

C32_Witness ==
  /\ reply.op = "detectEmergency"
  /\ reply.arg = <<"High Fever", " ", "CHEST PAIN">>
  /\ reply.rows[1].priority = "emergency"
  /\ reply.rows[1].matchedKeywords = << <<"chest pain">> >>

\* the turn passed the existence and status checks (step 1)
PassedStatusCheck(tr) ==
  tr.pc \notin {"idle", "getConv"} /\ tr.outcome \notin {"NOT_FOUND", "FORBIDDEN"}

\* fast mode: no limit rejection, no classification, short-circuit, validation
\* or urgent advisory; the Inference Client is called once the user message is
\* persisted, no handoff is inserted, and a generated response is persisted and
\* returned as the Inference Client gave it
StraightToGeneration(tr) ==
  /\ tr.outcome \in {None, "generated", "error", "cancelled"}
  /\ tr.pc \in {"checkLimits", "addUser", "fastCtx", "engine", "post", "streaming",
                "fastAddAsst", "ended"}
  /\ tr.pc \in {"engine", "post", "streaming", "fastAddAsst", "ended"} => tr.engineCalls = 1
  /\ tr.handoffsMade = <<>>
  /\ tr.urgentPrefix = <<>>
  /\ tr.outcome = "generated" =>
       /\ tr.saved = <<CleanContent(tr.raw)>>
       /\ FinalDelivered(tr) \subseteq {CleanContent(tr.raw)}
       /\ tr.kind = "send" => tr.response.message = CleanContent(tr.raw)

C34_ClosedIsTerminal ==
  /\ [][conv.status = "closed" => conv'.status = "closed"]_vars
  /\ [](conv.closed_at # 0 => getActiveConversations = <<>>)

\* what the caller of the turn is given when the pending engine call throws
\* this error
CallerView(tr, error) ==
  IF tr.kind = "send" THEN <<sendMessageCatch(tr, error).response>>
  ELSE sendMessageStreamCatch(tr, error).events

\* C35: for a turn whose engine call is pending and whose caller is still
\* there, a connectivity failure of the engine and an empty engine response
\* give the caller different error codes.
C35_EngineErrorsDistinguished ==
  \A t \in Turns :
    LET tr == turn[t]
    IN /\ (tr.kind = "send" /\ tr.pc = "engine")
            => CallerView(tr, CannotConnect) # CallerView(tr, InvalidResponse)
       /\ (tr.kind = "stream" /\ tr.pc \in {"post", "streaming"}
             /\ ~tr.isCancelled /\ ~tr.aborted)
            => CallerView(tr, CannotConnect) # CallerView(tr, EmptyStreaming)


\* the done events a streaming turn has written
DoneEvents(tr) == {i \in 1..Len(tr.events) : tr.events[i].type = "done"}

\* the turn has been cancelled: by cancelGeneration on its handle, or by the
\* client's disconnection
TurnCancelled(tr) == tr.hCancelled \/ tr.isCancelled

\* the step in which the pending INSERT of the assistant message rejects
PersistFailed(t) ==
  /\ turn[t].pc \in {"addAsst", "fastAddAsst"}
  /\ turn'[t].pc = "ended"
  /\ messages' = messages

\* C36: in a streaming turn a done event is written only with its message
\* persisted by the turn; when the INSERT of the assistant message fails the
\* turn writes error and no done; and a turn cancelled before it persisted an
\* assistant message persists none and writes no done.
C36_DoneOnlyAfterPersisted ==
  /\ [](\A t \in Turns : turn[t].kind = "stream" =>
          \A i \in DoneEvents(turn[t]) :
            \E j \in 1..Len(turn[t].saved) : turn[t].saved[j] = turn[t].events[i].content)
  /\ [][\A t \in Turns : (turn[t].kind = "stream" /\ PersistFailed(t)) =>
          /\ DoneEvents(turn'[t]) = {}
          /\ sendEventOpen(turn[t]) =>
               turn'[t].events = Append(turn[t].events, Ev("error", <<>>, <<>>, "INTERNAL_ERROR"))]_vars
  /\ [][\A t \in Turns :
          (turn[t].kind = "stream" /\ turn[t].pc # "idle" /\ TurnCancelled(turn[t])
             /\ turn[t].saved = <<>>) =>
          (turn'[t].saved = <<>> /\ DoneEvents(turn'[t]) = {})]_vars


\* a streaming turn that has started and not yet concluded
InProgress(tr) == tr.kind = "stream" /\ tr.pc \notin {"idle", "ended"}

\* the step in which turn t concludes
Concludes(t) == InProgress(turn[t]) /\ turn'[t].pc = "ended"

\* C37: while a streaming turn of the session is in progress the session's
\* registry entry refers to a turn in progress, and a turn that concludes leaves
\* an entry that refers to another turn's handle in place.
C37_EntryRefersToInProgressTurn ==
  /\ []((\E t \in Turns : InProgress(turn[t])) =>
          (activeSessions \in Turns /\ InProgress(turn[activeSessions])))
  /\ [][\A t \in Turns : (Concludes(t) /\ activeSessions # t) =>
          activeSessions' = activeSessions]_vars


\* the step persists a user message
UserMessagePersisted ==
  /\ Len(messages') = Len(messages) + 1
  /\ messages'[Len(messages')].role = "user"

\* C38: under any interleaving of the patient turns of a session, a user
\* message is persisted only into a conversation that holds fewer messages than
\* the per-session cap.
C38_NoUserMessageAtCap ==
  [][UserMessagePersisted => Len(messages) < maxMessagesPerSession]_vars


\* C39: for a conversation made by createSession and patient turns, getHistory
\* answers with all persisted messages of the conversation in the order of
\* their creation, the most recent assistant reply included.
C39_HistoryComplete ==
  /\ getHistoryResponse.code = 200
  /\ getHistoryResponse.messages = messages


\* the place of a handoff status in pending -> assigned -> resolved
StatusRank(status) ==
  CASE status = "pending" -> 1
    [] status = "assigned" -> 2
    [] status = "resolved" -> 3

\* the step is a successful takeover, or release, by staff s: its system
\* message is the last message
TookOver(s) == messages' = addMessage("system", <<"STAFF_JOINED">>, {"takeover", s})
Released(s) == messages' = addMessage("system", <<"RETURNED_TO_AI">>, {"release", s})

\* C40: a handoff request's status only moves forward; a successful takeover by
\* s turns every pending request into assigned to s, a successful release turns
\* every assigned request into resolved; and while the conversation is
\* staff-taken by s every assigned request is assigned to s.
C40_HandoffStatusForward ==
  /\ [][/\ Len(handoffs') >= Len(handoffs)
        /\ \A i \in DOMAIN handoffs :
             StatusRank(handoffs'[i].status) >= StatusRank(handoffs[i].status)]_vars
  /\ [][\A s \in staffIds : TookOver(s) =>
          \A i \in DOMAIN handoffs : handoffs[i].status = "pending" =>
            (handoffs'[i].status = "assigned" /\ handoffs'[i].assigned_staff_id = s)]_vars
  /\ [][\A s \in staffIds : Released(s) =>
          \A i \in DOMAIN handoffs : handoffs[i].status = "assigned" =>
            handoffs'[i].status = "resolved"]_vars
  /\ []((conv # NoConv /\ conv.status = "staff-taken") =>
          \A i \in DOMAIN handoffs : handoffs[i].status = "assigned" =>
            handoffs[i].assigned_staff_id = conv.staff_id)

====
